---------------------------- MODULE Spec2Model ----------------------------
(***************************************************************************)
(* Byte-Forge ROM patcher: the byte cursor (BinFile), the checksums and    *)
(* the IPS / UPS / BPS / PPF / APS-GBA codecs, modelled from the           *)
(* TypeScript sources.                                                     *)
(*                                                                         *)
(* Conventions.  A Uint8Array is a sequence of 0..255; index i of the      *)
(* source is index i+1 here.  A BinFile is a record                        *)
(*   [data, fileSize, offset, littleEndian, stack].                        *)
(* A 32-bit unsigned value that may exceed 2^31-1 (a CRC32) is a pair      *)
(* <<high 16 bits, low 16 bits>>.  A thrown exception is a record          *)
(* [error |-> kind].                                                       *)
(***************************************************************************)
EXTENDS Integers, Sequences, FiniteSets, TLC

VARIABLES pc, source, modified, patch, patchFile, parsed, target

vars == <<pc, source, modified, patch, patchFile, parsed, target>>

(***************************************************************************)
(* JavaScript values that are not numbers.                                 *)
(***************************************************************************)
\* `undefined`: a typed-array read outside [0, length)
Undefined == -1
\* `false` in a field of type number | false
JSFalse == -2
\* a field or variable that holds nothing yet
None == [none |-> TRUE]

Min(a, b) == IF a < b THEN a ELSE b
Max(a, b) == IF a > b THEN a ELSE b

\* if (x) ... on a number | false | undefined
Truthy(x) == x # JSFalse /\ x # Undefined /\ x # 0

\* F applied to the value of x.  TLC passes operator arguments unevaluated; a
\* loop that carries a file or a checksum from one iteration to the next uses
\* Then so that each iteration's result is computed before the next begins.
Then(x, F(_)) == CHOOSE r \in {F(v) : v \in {x}} : TRUE

(***************************************************************************)
(* Bit operations on non-negative integers.                                *)
(***************************************************************************)
RECURSIVE BitXor(_, _)
BitXor(a, b) ==
    IF a = 0 THEN b
    ELSE IF b = 0 THEN a
    ELSE (((a % 2) + (b % 2)) % 2) + 2 * BitXor(a \div 2, b \div 2)

\* value & 0xFF as the byte stores do it (undefined & 0xFF = 0)
ToU8(v) == IF v = Undefined THEN 0 ELSE v % 256

\* Uint8Array.prototype.slice(a, b) on a sequence: a negative index counts
\* from the end, and both are clamped to [0, length]
Slice(s, a, b) ==
    LET lo == IF a < 0 THEN Max(Len(s) + a, 0) ELSE Min(a, Len(s))
        hi == IF b < 0 THEN Max(Len(s) + b, 0) ELSE Min(b, Len(s))
    IN  IF lo >= hi THEN <<>> ELSE SubSeq(s, lo + 1, hi)

RECURSIVE Zeros(_)
\* new Uint8Array(n): n zero bytes
Zeros(n) ==
    IF n <= 0 THEN <<>>
    ELSE LET half == Zeros(n \div 2)
         IN  half \o half \o (IF n % 2 = 1 THEN <<0>> ELSE <<>>)

RECURSIVE Uint8ArrayFrom(_)
\* new Uint8Array(numbers): each element stored as a byte
Uint8ArrayFrom(xs) ==
    IF xs = <<>> THEN <<>>
    ELSE Append(Uint8ArrayFrom(SubSeq(xs, 1, Len(xs) - 1)), ToU8(xs[Len(xs)]))

\* data[i] of a typed array: undefined outside the array
At(s, i) == IF i >= 0 /\ i < Len(s) THEN s[i + 1] ELSE Undefined

\* all sequences over S of length at most n
SeqsUpTo(S, n) == UNION {[1..k -> S] : k \in 0..n}

(***************************************************************************)
(* BinFile (src/lib/core/binary-file.ts)                                   *)
(***************************************************************************)
\* new BinFile(size)
BinFileOfSize(n) ==
    [data |-> Zeros(n), fileSize |-> n, offset |-> 0,
     littleEndian |-> FALSE, stack |-> <<>>]

\* new BinFile(uint8array)
BinFileOfBytes(bytes) ==
    [data |-> bytes, fileSize |-> Len(bytes), offset |-> 0,
     littleEndian |-> FALSE, stack |-> <<>>]

seek(f, o) == [f EXCEPT !.offset = Max(0, Min(o, f.fileSize))]

skip(f, n) == seek(f, f.offset + n)

isEOF(f) == f.offset >= f.fileSize

\* readU8: the value read, and the file afterwards
readU8Val(f) == IF f.offset >= f.fileSize THEN 0 ELSE f.data[f.offset + 1]
readU8File(f) == IF f.offset >= f.fileSize THEN f ELSE [f EXCEPT !.offset = @ + 1]

expand(f, newSize) ==
    IF newSize <= Len(f.data) THEN f
    ELSE [f EXCEPT !.data = f.data \o Zeros(newSize - Len(f.data))]

writeU8(f, value) ==
    LET g == IF f.offset >= Len(f.data) THEN expand(f, f.offset + 1) ELSE f
        o == g.offset + 1
    IN  [g EXCEPT !.data = SubSeq(g.data, 1, g.offset) \o <<ToU8(value)>>
                               \o SubSeq(g.data, o + 1, Len(g.data)),
                  !.offset = o,
                  !.fileSize = IF o > g.fileSize THEN o ELSE g.fileSize]

RECURSIVE writeU8Times(_, _, _)
\* for (i = 0; i < n; i++) f.writeU8(value)
writeU8Times(f, value, n) ==
    IF n <= 0 THEN f
    ELSE Then(writeU8(f, value), LAMBDA g : writeU8Times(g, value, n - 1))

writeBytes(f, bytes) ==
    LET requiredSize == f.offset + Len(bytes)
        g == IF requiredSize > Len(f.data) THEN expand(f, requiredSize) ELSE f
        o == g.offset + Len(bytes)
    IN  [g EXCEPT !.data = SubSeq(g.data, 1, g.offset) \o bytes
                               \o SubSeq(g.data, o + 1, Len(g.data)),
                  !.offset = o,
                  !.fileSize = IF o > g.fileSize THEN o ELSE g.fileSize]

\* readBytes: the bytes read, and the file afterwards
readBytesVal(f, length) == Slice(f.data, f.offset, Min(f.offset + length, f.fileSize))
readBytesFile(f, length) == [f EXCEPT !.offset = Min(f.offset + length, f.fileSize)]

truncate(f, size) ==
    LET n == Min(size, Len(f.data))
    IN  [f EXCEPT !.fileSize = n, !.offset = IF f.offset > n THEN n ELSE f.offset]

\* a clone that is a second view of the same array
clone_SharedArray(f) == [f EXCEPT !.offset = 0, !.stack = <<>>]

clone(f) ==
    [data |-> f.data, fileSize |-> f.fileSize, offset |-> 0,
     littleEndian |-> f.littleEndian, stack |-> <<>>]

\* this.copyTo(target, targetOffset, sourceLength): the target afterwards.
\* sourceLength = Undefined stands for the omitted argument.
copyTo(this, tgt, targetOffset, sourceLength) ==
    LET length == IF sourceLength = Undefined
                  THEN this.fileSize - this.offset ELSE sourceLength
        sourceData == Slice(this.data, this.offset, this.offset + length)
    IN  writeBytes(seek(tgt, targetOffset), sourceData)

getBytes(f) == Slice(f.data, 0, f.fileSize)


\* readU16 / readU24: the value read, and the file afterwards
readU16Val(f) ==
    LET byte1 == readU8Val(f)
        byte2 == readU8Val(readU8File(f))
    IN  IF f.littleEndian THEN byte2 * 256 + byte1 ELSE byte1 * 256 + byte2
readU16File(f) == readU8File(readU8File(f))

readU24Val(f) ==
    LET byte1 == readU8Val(f)
        f1 == readU8File(f)
        byte2 == readU8Val(f1)
        byte3 == readU8Val(readU8File(f1))
    IN  IF f.littleEndian
        THEN byte3 * 65536 + byte2 * 256 + byte1
        ELSE byte1 * 65536 + byte2 * 256 + byte3
readU24File(f) == readU8File(readU8File(readU8File(f)))

\* readU32: the value read as <<high 16 bits, low 16 bits>>, and the file afterwards
readU32Val(f) ==
    LET byte1 == readU8Val(f)
        f1 == readU8File(f)
        byte2 == readU8Val(f1)
        f2 == readU8File(f1)
        byte3 == readU8Val(f2)
        byte4 == readU8Val(readU8File(f2))
    IN  IF f.littleEndian
        THEN <<byte4 * 256 + byte3, byte2 * 256 + byte1>>
        ELSE <<byte1 * 256 + byte2, byte3 * 256 + byte4>>
readU32File(f) == readU8File(readU8File(readU8File(readU8File(f))))

writeU16(f, value) ==
    IF f.littleEndian
    THEN writeU8(writeU8(f, value % 256), (value \div 256) % 256)
    ELSE writeU8(writeU8(f, (value \div 256) % 256), value % 256)

writeU24(f, value) ==
    IF f.littleEndian
    THEN writeU8(writeU8(writeU8(f, value % 256), (value \div 256) % 256),
                 (value \div 65536) % 256)
    ELSE writeU8(writeU8(writeU8(f, (value \div 65536) % 256), (value \div 256) % 256),
                 value % 256)

\* a number below 2^31 as a 32-bit value <<high 16 bits, low 16 bits>>
U32(n) == <<(n \div 65536) % 65536, n % 65536>>

\* writeU32 of a 32-bit value w = <<high 16 bits, low 16 bits>>
writeU32(f, w) ==
    LET b0 == w[2] % 256
        b1 == w[2] \div 256
        b2 == w[1] % 256
        b3 == w[1] \div 256
    IN  IF f.littleEndian
        THEN writeU8(writeU8(writeU8(writeU8(f, b0), b1), b2), b3)
        ELSE writeU8(writeU8(writeU8(writeU8(f, b3), b2), b1), b0)

(***************************************************************************)
(* IPS (src/lib/formats/ips.ts).  The EBP metadata trailer is not          *)
(* modelled: every patch here has metadata = null.                         *)
(***************************************************************************)
\* 'PATCH' and 'EOF' as ASCII codes
IPS_MAGIC == <<80, 65, 84, 67, 72>>
IPS_EOF == <<69, 79, 70>>
IPS_RECORD_RLE == 0
IPS_RECORD_SIMPLE == 1

\* new IPSPatch()
IPSPatch == [records |-> <<>>, truncate |-> JSFalse]

addSimpleRecord(p, offset, data) ==
    [p EXCEPT !.records = Append(@, [offset |-> offset, type |-> IPS_RECORD_SIMPLE,
                                     length |-> Len(data), data |-> data])]

addRLERecord(p, offset, length, byte) ==
    [p EXCEPT !.records = Append(@, [offset |-> offset, type |-> IPS_RECORD_RLE,
                                     length |-> length, byte |-> byte])]

\* the two bytes IPS.create compares at `offset` (lines 279-280 and 288-289):
\* both are read from originalFile.data
IPS_originalByte(originalFile, offset) ==
    IF offset < originalFile.fileSize THEN At(originalFile.data, offset) ELSE 0
IPS_modifiedByte(originalFile, modifiedFile, offset) ==
    IF offset < modifiedFile.fileSize THEN At(originalFile.data, offset) ELSE 0

RECURSIVE IPS_collectChanges(_, _, _, _)
\* the inner while loop of IPS.create: the consecutive changes from `offset` on
IPS_collectChanges(originalFile, modifiedFile, offset, changes) ==
    IF offset < Max(originalFile.fileSize, modifiedFile.fileSize)
       /\ IPS_originalByte(originalFile, offset)
            # IPS_modifiedByte(originalFile, modifiedFile, offset)
    THEN IPS_collectChanges(originalFile, modifiedFile, offset + 1,
             Append(changes, IPS_modifiedByte(originalFile, modifiedFile, offset)))
    ELSE changes

RECURSIVE IPS_createLoop(_, _, _, _)
\* the outer while loop of IPS.create
IPS_createLoop(originalFile, modifiedFile, offset, p) ==
    IF offset >= Max(originalFile.fileSize, modifiedFile.fileSize) THEN p
    ELSE IF IPS_originalByte(originalFile, offset)
              # IPS_modifiedByte(originalFile, modifiedFile, offset)
    THEN LET changes == IPS_collectChanges(originalFile, modifiedFile, offset, <<>>)
             rle == Len(changes) > 3 /\ \A i \in 1..Len(changes) : changes[i] = changes[1]
         IN  IPS_createLoop(originalFile, modifiedFile, offset + Len(changes),
                 IF rle
                 THEN addRLERecord(p, offset, Len(changes), changes[1])
                 ELSE addSimpleRecord(p, offset, Uint8ArrayFrom(changes)))
    ELSE IPS_createLoop(originalFile, modifiedFile, offset + 1, p)

IPS_create(originalFile, modifiedFile) ==
    LET p == IPS_createLoop(originalFile, modifiedFile, 0, IPSPatch)
    IN  IF modifiedFile.fileSize < originalFile.fileSize
        THEN [p EXCEPT !.truncate = modifiedFile.fileSize]
        ELSE p

RECURSIVE IPS_maxOffset(_, _, _)
\* the "determine output size" loop of IPSPatch.apply
IPS_maxOffset(records, i, maxOffset) ==
    IF i > Len(records) THEN maxOffset
    ELSE IPS_maxOffset(records, i + 1,
             Max(maxOffset, records[i].offset + records[i].length))

RECURSIVE IPS_applyRecords(_, _, _)
\* the "apply patches" loop of IPSPatch.apply
IPS_applyRecords(records, i, patchedRom) ==
    IF i > Len(records) THEN patchedRom
    ELSE LET record == records[i]
             f == seek(patchedRom, record.offset)
         IN  IPS_applyRecords(records, i + 1,
                 IF record.type = IPS_RECORD_RLE
                 THEN writeU8Times(f, record.byte, record.length)
                 ELSE writeBytes(f, record.data))

IPS_apply(p, romFile) ==
    LET cloned == clone(romFile)
        maxOffset == IPS_maxOffset(p.records, 1, cloned.fileSize)
        expanded == IF maxOffset > cloned.fileSize THEN expand(cloned, maxOffset) ELSE cloned
        patchedRom == IPS_applyRecords(p.records, 1, expanded)
    IN  IF Truthy(p.truncate) THEN truncate(patchedRom, p.truncate) ELSE patchedRom

RECURSIVE IPS_exportSize(_, _)
IPS_exportSize(records, i) ==
    IF i > Len(records) THEN 0
    ELSE (IF records[i].type = IPS_RECORD_RLE
          THEN 3 + 2 + 2 + 1 ELSE 3 + 2 + Len(records[i].data))
         + IPS_exportSize(records, i + 1)

RECURSIVE IPS_exportRecords(_, _, _)
IPS_exportRecords(records, i, f) ==
    IF i > Len(records) THEN f
    ELSE LET record == records[i]
             f1 == writeU24(f, record.offset)
         IN  IPS_exportRecords(records, i + 1,
                 IF record.type = IPS_RECORD_RLE
                 THEN writeU8(writeU16(writeU16(f1, 0), record.length), record.byte)
                 ELSE writeBytes(writeU16(f1, Len(record.data)), record.data))

IPS_export(p) ==
    LET patchFileSize == 5 + IPS_exportSize(p.records, 1) + 3
                           + (IF Truthy(p.truncate) THEN 3 ELSE 0)
        f0 == writeBytes(BinFileOfSize(patchFileSize), IPS_MAGIC)
        f1 == writeBytes(IPS_exportRecords(p.records, 1, f0), IPS_EOF)
    IN  IF Truthy(p.truncate) THEN writeU24(f1, p.truncate) ELSE f1

RECURSIVE IPS_readRecords(_, _)
\* the while (true) loop of IPS.fromFile
IPS_readRecords(f, p) ==
    IF f.offset + 3 > f.fileSize THEN [error |-> "InvalidPatchFile"]
    ELSE IF readBytesVal(f, 3) = IPS_EOF
    THEN LET f1 == readBytesFile(f, 3)
         IN  IF f1.offset < f1.fileSize /\ f1.fileSize - f1.offset = 3
             THEN [p EXCEPT !.truncate = readU24Val(f1)]
             ELSE p
    ELSE LET offset == readU24Val(f)
             f1 == readU24File(f)
             length == readU16Val(f1)
             f2 == readU16File(f1)
         IN  IF length = 0
             THEN IPS_readRecords(readU8File(readU16File(f2)),
                      addRLERecord(p, offset, readU16Val(f2),
                                   readU8Val(readU16File(f2))))
             ELSE IF f2.offset + length > f2.fileSize
             THEN [error |-> "InvalidPatchFile"]
             ELSE IPS_readRecords(readBytesFile(f2, length),
                      addSimpleRecord(p, offset, readBytesVal(f2, length)))

IPS_fromFile(file) ==
    LET f == seek(file, 0)
    IN  IF readBytesVal(f, 5) # IPS_MAGIC THEN [error |-> "InvalidPatchFile"]
        ELSE IPS_readRecords(readBytesFile(f, 5), IPSPatch)

(***************************************************************************)
(* Bounds of the model.                                                    *)
(***************************************************************************)
\* longest ROM (source or modified) drawn
MaxRomLen == 4
\* most records added to a hand-built patch
MaxRecords == 2

\* byte values of the ROMs drawn
RomBytes == {0, 1, 2}
Roms == {BinFileOfBytes(b) : b \in SeqsUpTo(RomBytes, MaxRomLen)}
EmptyRom == BinFileOfBytes(<<>>)

(***************************************************************************)
(* SpecIPS: either create a patch from two ROMs and apply it to the        *)
(* source, or build a patch record by record, export it and parse the      *)
(* exported file.                                                          *)
(***************************************************************************)
\* record offsets drawn: 24-bit values other than 0x454F46 ("EOF"), which the
\* format reserves as the terminator
IPSOffsets == {0, 66051, 16777215}
\* simple payloads (1..0xFFFF bytes) and RLE (length, byte) pairs drawn
IPSPayloads == {<<1>>, <<0, 255>>}
IPSRunLengths == {4, 300}
IPSRunBytes == {0, 255}
\* truncation sizes drawn
IPSTruncations == {0, 1, 66051}

InitIPS ==
    /\ \/ pc = "init" /\ source \in Roms /\ modified \in Roms
       \/ pc = "new" /\ source = EmptyRom /\ modified = EmptyRom
    /\ patch = IPSPatch
    /\ patchFile = None
    /\ parsed = None
    /\ target = None

IPSCreate ==
    /\ pc = "init"
    /\ patch' = IPS_create(source, modified)
    /\ pc' = "created"
    /\ UNCHANGED <<source, modified, patchFile, parsed, target>>

IPSApply ==
    /\ pc = "created"
    /\ target' = IPS_apply(patch, source)
    /\ pc' = "applied"
    /\ UNCHANGED <<source, modified, patch, patchFile, parsed>>

IPSAddSimpleRecord ==
    /\ pc = "new"
    /\ Len(patch.records) < MaxRecords
    /\ \E o \in IPSOffsets, d \in IPSPayloads : patch' = addSimpleRecord(patch, o, d)
    /\ UNCHANGED <<pc, source, modified, patchFile, parsed, target>>

IPSAddRLERecord ==
    /\ pc = "new"
    /\ Len(patch.records) < MaxRecords
    /\ \E o \in IPSOffsets, n \in IPSRunLengths, b \in IPSRunBytes :
          patch' = addRLERecord(patch, o, n, b)
    /\ UNCHANGED <<pc, source, modified, patchFile, parsed, target>>

\* patch.truncate = n
IPSSetTruncate ==
    /\ pc = "new"
    /\ patch.truncate = JSFalse
    /\ \E n \in IPSTruncations : patch' = [patch EXCEPT !.truncate = n]
    /\ UNCHANGED <<pc, source, modified, patchFile, parsed, target>>

IPSExport ==
    /\ pc = "new"
    /\ patchFile' = IPS_export(patch)
    /\ pc' = "exported"
    /\ UNCHANGED <<source, modified, patch, parsed, target>>

IPSParse ==
    /\ pc = "exported"
    /\ parsed' = IPS_fromFile(patchFile)
    /\ pc' = "parsed"
    /\ UNCHANGED <<source, modified, patch, patchFile, target>>

NextIPS ==
    \/ IPSCreate
    \/ IPSApply
    \/ IPSAddSimpleRecord
    \/ IPSAddRLERecord
    \/ IPSSetTruncate
    \/ IPSExport
    \/ IPSParse

SpecIPS == InitIPS /\ [][NextIPS]_vars

\* C1: IPS create/apply round-trip: applying IPS.create(source, modified) to
\* source yields exactly modified (same length, same bytes).
C1_IPSCreateApplyRoundTrip ==
    pc = "applied" => getBytes(target) = getBytes(modified)

\* C6: IPS export/parse round-trip: IPS.fromFile(patch.export()) yields a patch
\* with the same records in the same order and the same truncation value.
C6_IPSExportParseRoundTrip ==
    pc = "parsed" => parsed = patch

(***************************************************************************)
(* CRC32 (BinFile.hashCRC32, BinFile._getCRC32Table).  A 32-bit value is   *)
(* <<high 16 bits, low 16 bits>>.                                          *)
(***************************************************************************)
Xor32(v, w) == <<BitXor(v[1], w[1]), BitXor(v[2], w[2])>>
\* c >>> 1 and c >>> 8
Shr1(c) == <<c[1] \div 2, (c[2] \div 2) + (c[1] % 2) * 32768>>
Shr8(c) == <<c[1] \div 256, (c[2] \div 256) + (c[1] % 256) * 256>>

RECURSIVE CRC32TableEntry(_, _)
\* for (k = 0; k < 8; k++) c = (c & 1) ? (0xedb88320 ^ (c >>> 1)) : (c >>> 1)
CRC32TableEntry(c, k) ==
    IF k = 0 THEN c
    ELSE CRC32TableEntry(IF c[2] % 2 = 1 THEN Xor32(<<60856, 33568>>, Shr1(c))
                         ELSE Shr1(c), k - 1)

CRC32Table == [n \in 0..255 |-> CRC32TableEntry(<<0, n>>, 8)]

RECURSIVE CRC32Update(_, _, _)
\* crc = table[(crc ^ data[i]) & 0xff] ^ (crc >>> 8) for i = from .. length
CRC32Update(crc, data, i) ==
    IF i > Len(data) THEN crc
    ELSE Then(Xor32(CRC32Table[BitXor(crc[2] % 256, data[i])], Shr8(crc)),
              LAMBDA c : CRC32Update(c, data, i + 1))

\* hashCRC32(startOffset, endOffset); endOffset = Undefined is the omitted argument
hashCRC32(f, startOffset, endOffset) ==
    LET end == IF endOffset = Undefined THEN f.fileSize ELSE endOffset
    IN  Xor32(CRC32Update(<<65535, 65535>>, Slice(f.data, startOffset, end), 1),
              <<65535, 65535>>)

(***************************************************************************)
(* BinFile.readVLV / writeVLV (binary-file.ts, "for UPS format")           *)
(***************************************************************************)
RECURSIVE readVLVLoop(_, _, _)
\* the state after the loop of readVLV: [value, file]
readVLVLoop(f, value, shift) ==
    LET byte == readU8Val(f)
        f1 == readU8File(f)
        v == value + (byte % 128) * shift
    IN  IF byte < 128 THEN [value |-> v, file |-> f1]
        ELSE readVLVLoop(f1, v + shift * 128, shift * 128)

readVLVVal(f) == readVLVLoop(f, 0, 1).value
readVLVFile(f) == readVLVLoop(f, 0, 1).file

RECURSIVE writeVLV(_, _)
writeVLV(f, value) ==
    LET byte == value % 128
        rest == value \div 128
    IN  IF rest = 0 THEN writeU8(f, byte)
        ELSE writeVLV(writeU8(f, byte + 128), rest)

(***************************************************************************)
(* UPS (src/lib/formats/ups.ts)                                            *)
(***************************************************************************)
\* 'UPS1' as ASCII codes
UPS_MAGIC == <<85, 80, 83, 49>>

\* new UPSPatch()
UPSPatch ==
    [records |-> <<>>, sizeInput |-> 0, sizeOutput |-> 0,
     checksumInput |-> <<0, 0>>, checksumOutput |-> <<0, 0>>]

UPS_addRecord(p, relativeOffset, xorData) ==
    [p EXCEPT !.records = Append(@, [offset |-> relativeOffset, XORdata |-> xorData])]

UPS_validateSource(p, romFile, headerSize) ==
    hashCRC32(romFile, headerSize, Undefined) = p.checksumInput

\* const b = file.isEOF() ? 0x00 : file.readU8(): the byte, and the file afterwards
readOrZeroVal(f) == IF isEOF(f) THEN 0 ELSE readU8Val(f)
readOrZeroFile(f) == IF isEOF(f) THEN f ELSE readU8File(f)

RECURSIVE UPS_applyXor(_, _, _, _)
\* for (const xorByte of record.XORdata) ...: [tempFile, romFile] afterwards
UPS_applyXor(XORdata, j, tempFile, romFile) ==
    IF j > Len(XORdata) THEN [tempFile |-> tempFile, romFile |-> romFile]
    ELSE UPS_applyXor(XORdata, j + 1,
             writeU8(tempFile, BitXor(readOrZeroVal(romFile), XORdata[j])),
             readOrZeroFile(romFile))

RECURSIVE UPS_applyRecords(_, _, _, _, _)
\* for (const record of this.upsRecords) ...: [tempFile, romFile] afterwards
UPS_applyRecords(records, i, absoluteOffset, tempFile, romFile) ==
    IF i > Len(records) THEN [tempFile |-> tempFile, romFile |-> romFile]
    ELSE LET record == records[i]
             at == absoluteOffset + record.offset
             r == UPS_applyXor(record.XORdata, 1, seek(tempFile, at), seek(romFile, at))
         IN  UPS_applyRecords(records, i + 1, at + Len(record.XORdata),
                              r.tempFile, r.romFile)

\* UPSPatch.apply: [result, romFile], result the patched file or an error
UPS_apply(p, romFile) ==
    IF ~UPS_validateSource(p, romFile, 0)
    THEN [result |-> [error |-> "SourceChecksumMismatch"], romFile |-> romFile]
    ELSE LET grown == p.sizeInput < romFile.fileSize
             sizeInput == IF grown THEN romFile.fileSize ELSE p.sizeInput
             sizeOutput == IF grown /\ p.sizeOutput < sizeInput
                           THEN sizeInput ELSE p.sizeOutput
             tempFile == copyTo(romFile, BinFileOfSize(sizeOutput), 0, sizeInput)
             r == UPS_applyRecords(p.records, 1, 0, tempFile, romFile)
         IN  IF hashCRC32(r.tempFile, 0, Undefined) # p.checksumOutput
             THEN [result |-> [error |-> "TargetChecksumMismatch"], romFile |-> r.romFile]
             ELSE [result |-> r.tempFile, romFile |-> r.romFile]

RECURSIVE UPS_vlvLength(_, _, _)
\* the least k >= 1 with value + 1 <= 128^k (pow = 128^k)
UPS_vlvLength(value, k, pow) ==
    IF value + 1 <= pow THEN k ELSE UPS_vlvLength(value, k + 1, pow * 128)

\* Math.ceil(Math.log2(value + 1) / 7) || 1
UPS_getVLVLength(value) == UPS_vlvLength(value, 1, 128)

RECURSIVE UPS_exportSize(_, _)
UPS_exportSize(records, i) ==
    IF i > Len(records) THEN 0
    ELSE UPS_getVLVLength(records[i].offset) + Len(records[i].XORdata) + 1
         + UPS_exportSize(records, i + 1)

RECURSIVE UPS_exportRecords(_, _, _)
UPS_exportRecords(records, i, f) ==
    IF i > Len(records) THEN f
    ELSE Then(writeU8(writeBytes(writeVLV(f, records[i].offset), records[i].XORdata), 0),
              LAMBDA g : UPS_exportRecords(records, i + 1, g))

UPS_export(p) ==
    LET patchFileSize == 4 + UPS_getVLVLength(p.sizeInput) + UPS_getVLVLength(p.sizeOutput)
                           + UPS_exportSize(p.records, 1) + 12
        f0 == writeVLV(writeVLV(writeBytes(BinFileOfSize(patchFileSize), UPS_MAGIC),
                                p.sizeInput), p.sizeOutput)
        f1 == [UPS_exportRecords(p.records, 1, f0) EXCEPT !.littleEndian = TRUE]
        f2 == writeU32(writeU32(f1, p.checksumInput), p.checksumOutput)
    IN  writeU32(f2, hashCRC32(f2, 0, f2.fileSize - 4))

RECURSIVE UPS_readXor(_, _)
\* while ((byte = patchFile.readU8()) !== 0) XORdifferences.push(byte): [data, file]
UPS_readXor(f, XORdifferences) ==
    IF readU8Val(f) = 0 THEN [data |-> XORdifferences, file |-> readU8File(f)]
    ELSE UPS_readXor(readU8File(f), Append(XORdifferences, readU8Val(f)))

RECURSIVE UPS_readRecords(_, _)
\* while (patchFile.offset < patchFile.fileSize - 12) ...: [patch, file]
UPS_readRecords(f, p) ==
    IF f.offset < f.fileSize - 12
    THEN LET x == UPS_readXor(readVLVFile(f), <<>>)
         IN  UPS_readRecords(x.file, UPS_addRecord(p, readVLVVal(f), x.data))
    ELSE [patch |-> p, file |-> f]

\* the string readString(n) decodes (utf-8): cut at the first NUL
RECURSIVE CutAtNul(_, _)
CutAtNul(bytes, i) ==
    IF i > Len(bytes) THEN bytes
    ELSE IF bytes[i] = 0 THEN SubSeq(bytes, 1, i - 1)
    ELSE CutAtNul(bytes, i + 1)

\* UPSPatch.fromFile: the patch, [null |-> TRUE], or an error
UPS_fromFile(file) ==
    LET f == seek(file, 0)
    IN  IF CutAtNul(readBytesVal(f, 4), 1) # UPS_MAGIC THEN [null |-> TRUE]
        ELSE LET f1 == readBytesFile(f, 4)
                 sizeInput == readVLVVal(f1)
                 f2 == readVLVFile(f1)
                 sizeOutput == readVLVVal(f2)
                 r == UPS_readRecords(readVLVFile(f2),
                          [UPSPatch EXCEPT !.sizeInput = sizeInput,
                                           !.sizeOutput = sizeOutput])
                 f3 == [r.file EXCEPT !.littleEndian = TRUE]
                 f4 == readU32File(f3)
                 f5 == readU32File(f4)
             IN  IF readU32Val(f5) # hashCRC32(f5, 0, f5.fileSize - 4)
                 THEN [error |-> "InvalidPatchFile"]
                 ELSE [r.patch EXCEPT !.checksumInput = readU32Val(f3),
                                      !.checksumOutput = readU32Val(f4)]

RECURSIVE UPS_buildRun(_, _, _, _, _)
\* while (nb1 !== nb2 && !modifiedFile.isEOF()) ...: [XORdata, original, modified]
UPS_buildRun(originalFile, modifiedFile, nb1, nb2, XORdata) ==
    IF nb1 # nb2 /\ ~isEOF(modifiedFile)
    THEN UPS_buildRun(readOrZeroFile(originalFile), readOrZeroFile(modifiedFile),
                      readOrZeroVal(originalFile), readOrZeroVal(modifiedFile),
                      Append(XORdata, BitXor(nb1, nb2)))
    ELSE [XORdata |-> XORdata, original |-> originalFile, modified |-> modifiedFile]

RECURSIVE UPS_buildLoop(_, _, _, _)
\* while (!modifiedFile.isEOF()) ...: [patch, original, modified]
UPS_buildLoop(originalFile, modifiedFile, previousSeek, p) ==
    IF isEOF(modifiedFile)
    THEN [patch |-> p, original |-> originalFile, modified |-> modifiedFile]
    ELSE LET b1 == readOrZeroVal(originalFile)
             o1 == readOrZeroFile(originalFile)
             b2 == readU8Val(modifiedFile)
             m1 == readU8File(modifiedFile)
         IN  IF b1 # b2
             THEN LET currentSeek == m1.offset
                      run == UPS_buildRun(readOrZeroFile(o1), readOrZeroFile(m1),
                                          readOrZeroVal(o1), readOrZeroVal(m1),
                                          <<BitXor(b1, b2)>>)
                  IN  UPS_buildLoop(run.original, run.modified,
                          currentSeek + Len(run.XORdata) + 1,
                          UPS_addRecord(p, currentSeek - previousSeek, run.XORdata))
             ELSE UPS_buildLoop(o1, m1, previousSeek, p)

\* UPSPatch.buildFromRoms: [patch, original, modified] (the two files' cursors move)
UPS_buildFromRoms(originalFile, modifiedFile) ==
    LET r == UPS_buildLoop(seek(originalFile, 0), seek(modifiedFile, 0), 1,
                 [UPSPatch EXCEPT !.sizeInput = originalFile.fileSize,
                                  !.sizeOutput = modifiedFile.fileSize])
    IN  [r EXCEPT !.patch.checksumInput = hashCRC32(originalFile, 0, Undefined),
                  !.patch.checksumOutput = hashCRC32(modifiedFile, 0, Undefined)]

(***************************************************************************)
(* SpecUPS: either build a patch from two ROMs and apply it to the same    *)
(* source buffer, or fill in a patch by hand, export it and parse the      *)
(* exported file.                                                          *)
(***************************************************************************)
\* sizes, relative offsets, XOR payloads (no zero byte: zero ends a record)
\* and checksums drawn for a hand-built patch
UPSSizes == {0, 3, 127, 128, 300}
UPSRelativeOffsets == {0, 1, 128}
UPSPayloads == {<<1>>, <<3, 255>>}
UPSChecksums == {<<0, 0>>, <<52212, 14630>>}

InitUPS ==
    /\ \/ pc = "init" /\ source \in Roms /\ modified \in Roms
       \/ pc = "new" /\ source = EmptyRom /\ modified = EmptyRom
    /\ patch = UPSPatch
    /\ patchFile = None
    /\ parsed = None
    /\ target = None

UPSBuild ==
    /\ pc = "init"
    /\ LET r == UPS_buildFromRoms(source, modified)
       IN  patch' = r.patch /\ source' = r.original /\ modified' = r.modified
    /\ pc' = "created"
    /\ UNCHANGED <<patchFile, parsed, target>>

UPSApply ==
    /\ pc = "created"
    /\ LET r == UPS_apply(patch, source)
       IN  target' = r.result /\ source' = r.romFile
    /\ pc' = "applied"
    /\ UNCHANGED <<modified, patch, patchFile, parsed>>

\* patch.sizeInput = ..., patch.sizeOutput = ..., patch.checksumInput = ...
UPSSetHeader ==
    /\ pc = "new"
    /\ \E si \in UPSSizes, so \in UPSSizes, ci \in UPSChecksums, co \in UPSChecksums :
          patch' = [UPSPatch EXCEPT !.sizeInput = si, !.sizeOutput = so,
                                    !.checksumInput = ci, !.checksumOutput = co]
    /\ pc' = "records"
    /\ UNCHANGED <<source, modified, patchFile, parsed, target>>

UPSAddRecord ==
    /\ pc = "records"
    /\ Len(patch.records) < MaxRecords
    /\ \E o \in UPSRelativeOffsets, d \in UPSPayloads : patch' = UPS_addRecord(patch, o, d)
    /\ UNCHANGED <<pc, source, modified, patchFile, parsed, target>>

UPSExport ==
    /\ pc = "records"
    /\ patchFile' = UPS_export(patch)
    /\ pc' = "exported"
    /\ UNCHANGED <<source, modified, patch, parsed, target>>

UPSParse ==
    /\ pc = "exported"
    /\ parsed' = UPS_fromFile(patchFile)
    /\ pc' = "parsed"
    /\ UNCHANGED <<source, modified, patch, patchFile, target>>

NextUPS ==
    \/ UPSBuild
    \/ UPSApply
    \/ UPSSetHeader
    \/ UPSAddRecord
    \/ UPSExport
    \/ UPSParse

SpecUPS == InitUPS /\ [][NextUPS]_vars

\* a result that is a file, not a thrown error
IsFile(x) == "data" \in DOMAIN x

\* C2: UPS build/apply round-trip: buildFromRoms(source, modified).apply(source)
\* returns exactly modified and passes the target CRC32 check.
C2_UPSBuildApplyRoundTrip ==
    pc = "applied" => IsFile(target) /\ getBytes(target) = getBytes(modified)

\* C7: UPS export/parse round-trip: fromFile(patch.export()) succeeds and yields
\* the same sizes, record relative offsets, XOR payloads and checksums.
C7_UPSExportParseRoundTrip ==
    pc = "parsed" => parsed = patch

(***************************************************************************)
(* BPS (src/lib/formats/bps.ts)                                            *)
(***************************************************************************)
\* 'BPS1' as ASCII codes
BPS_MAGIC == <<66, 80, 83, 49>>
BPS_ACTION_SOURCE_READ == 0
BPS_ACTION_TARGET_READ == 1
BPS_ACTION_SOURCE_COPY == 2
BPS_ACTION_TARGET_COPY == 3

\* new BPSPatch(); metaData is the string as a sequence of character codes
BPSPatch ==
    [sourceSize |-> 0, targetSize |-> 0, metaData |-> <<>>, actions |-> <<>>,
     sourceChecksum |-> <<0, 0>>, targetChecksum |-> <<0, 0>>,
     patchChecksum |-> <<0, 0>>]

Abs(n) == IF n < 0 THEN -n ELSE n

\* ((action.length - 1) << 2) + action.type
BPS_actionWord(action) == (action.length - 1) * 4 + action.type
\* (Math.abs(relativeOffset) << 1) + (relativeOffset < 0 ? 1 : 0)
BPS_signedWord(relativeOffset) ==
    Abs(relativeOffset) * 2 + (IF relativeOffset < 0 THEN 1 ELSE 0)

RECURSIVE BPS_readVLVLoop(_, _, _)
\* BPSPatch._readVLV: [value, file, loops].  At the end of the file readU8
\* returns 0 without advancing, no byte carries 0x80, and the loop never ends:
\* loops = TRUE.
BPS_readVLVLoop(f, data, shift) ==
    IF isEOF(f) THEN [value |-> data, file |-> f, loops |-> TRUE]
    ELSE LET x == readU8Val(f)
             f1 == readU8File(f)
             d == data + (x % 128) * shift
         IN  IF x >= 128 THEN [value |-> d, file |-> f1, loops |-> FALSE]
             ELSE BPS_readVLVLoop(f1, d + shift * 128, shift * 128)

BPS_readVLV(f) == BPS_readVLVLoop(f, 0, 1)

RECURSIVE BPS_writeVLV_NoDecrement(_, _)
\* _writeVLV without its "data--"
BPS_writeVLV_NoDecrement(f, data) ==
    LET x == data % 128
        rest == data \div 128
    IN  IF rest = 0 THEN writeU8(f, 128 + x)
        ELSE BPS_writeVLV_NoDecrement(writeU8(f, x), rest)

RECURSIVE BPS_writeVLV(_, _)
\* BPSPatch._writeVLV bound to the file f
BPS_writeVLV(f, data) ==
    LET x == data % 128
        rest == data \div 128
    IN  IF rest = 0 THEN writeU8(f, 128 + x)
        ELSE BPS_writeVLV(writeU8(f, x), rest - 1)

RECURSIVE BPS_getVLVLen(_)
BPS_getVLVLen(data) ==
    IF data \div 128 = 0 THEN 1 ELSE 1 + BPS_getVLVLen((data \div 128) - 1)

IsOffsetAction(action) ==
    action.type = BPS_ACTION_SOURCE_COPY \/ action.type = BPS_ACTION_TARGET_COPY

RECURSIVE BPS_exportSize(_, _)
\* the size loop of BPSPatch.export over actions[i..]
BPS_exportSize(actions, i) ==
    IF i > Len(actions) THEN 0
    ELSE LET action == actions[i]
         IN  BPS_getVLVLen(BPS_actionWord(action))
             + (IF action.type = BPS_ACTION_TARGET_READ THEN action.length
                ELSE IF IsOffsetAction(action)
                THEN BPS_getVLVLen(BPS_signedWord(action.relativeOffset))
                ELSE 0)
             + BPS_exportSize(actions, i + 1)

\* one iteration of the write loop of BPSPatch.export
BPS_exportAction(f, action) ==
    LET f1 == BPS_writeVLV(f, BPS_actionWord(action))
    IN  IF action.type = BPS_ACTION_TARGET_READ
        THEN writeBytes(f1, Uint8ArrayFrom(action.bytes))
        ELSE IF IsOffsetAction(action)
        THEN BPS_writeVLV(f1, BPS_signedWord(action.relativeOffset))
        ELSE f1

RECURSIVE BPS_exportActions(_, _, _)
BPS_exportActions(actions, i, f) ==
    IF i > Len(actions) THEN f
    ELSE Then(BPS_exportAction(f, actions[i]),
              LAMBDA g : BPS_exportActions(actions, i + 1, g))

BPS_export(p) ==
    LET patchFileSize == Len(BPS_MAGIC) + BPS_getVLVLen(p.sourceSize)
                         + BPS_getVLVLen(p.targetSize)
                         + BPS_getVLVLen(Len(p.metaData)) + Len(p.metaData)
                         + BPS_exportSize(p.actions, 1) + 12
        f0 == [BinFileOfSize(patchFileSize) EXCEPT !.littleEndian = TRUE]
        f1 == BPS_writeVLV(BPS_writeVLV(writeBytes(f0, BPS_MAGIC), p.sourceSize),
                           p.targetSize)
        f2 == writeBytes(BPS_writeVLV(f1, Len(p.metaData)), p.metaData)
        f3 == BPS_exportActions(p.actions, 1, f2)
    IN  writeU32(writeU32(writeU32(f3, p.sourceChecksum), p.targetChecksum),
                 p.patchChecksum)

\* BPSPatch.calculateFileChecksum
BPS_calculateFileChecksum(p) ==
    LET file == BPS_export(p)
    IN  hashCRC32(file, 0, file.fileSize - 4)

RECURSIVE BPS_readActions(_, _, _)
\* the action loop of BPS.fromFile: [actions, file, loops]
BPS_readActions(f, endActionsOffset, actions) ==
    IF ~(f.offset < endActionsOffset)
    THEN [actions |-> actions, file |-> f, loops |-> FALSE]
    ELSE LET w == BPS_readVLV(f)
             type == w.value % 4
             length == (w.value \div 4) + 1
             o == BPS_readVLV(w.file)
         IN  IF w.loops THEN [actions |-> actions, file |-> f, loops |-> TRUE]
             ELSE IF type = BPS_ACTION_TARGET_READ
             THEN BPS_readActions(readBytesFile(w.file, length), endActionsOffset,
                      Append(actions, [type |-> type, length |-> length,
                                       bytes |-> readBytesVal(w.file, length)]))
             ELSE IF type = BPS_ACTION_SOURCE_COPY \/ type = BPS_ACTION_TARGET_COPY
             THEN IF o.loops THEN [actions |-> actions, file |-> f, loops |-> TRUE]
                  ELSE BPS_readActions(o.file, endActionsOffset,
                           Append(actions,
                               [type |-> type, length |-> length,
                                relativeOffset |->
                                    (IF o.value % 2 = 1 THEN -1 ELSE 1)
                                    * (o.value \div 2)]))
             ELSE BPS_readActions(w.file, endActionsOffset,
                      Append(actions, [type |-> type, length |-> length]))

\* BPS.fromFile: the patch, [error |-> ...] when it throws, [loops |-> TRUE]
\* when a _readVLV never returns
BPS_fromFile(file) ==
    LET f0 == seek([file EXCEPT !.littleEndian = TRUE], 4)
        v1 == BPS_readVLV(f0)
        v2 == BPS_readVLV(v1.file)
        v3 == BPS_readVLV(v2.file)
        metaDataLength == v3.value
        metaData == IF metaDataLength # 0
                    THEN readBytesVal(v3.file, metaDataLength) ELSE <<>>
        f4 == IF metaDataLength # 0
              THEN readBytesFile(v3.file, metaDataLength) ELSE v3.file
        r == BPS_readActions(f4, f4.fileSize - 12, <<>>)
        f5 == r.file
        f6 == readU32File(f5)
        f7 == readU32File(f6)
        p == [sourceSize |-> v1.value, targetSize |-> v2.value,
              metaData |-> metaData, actions |-> r.actions,
              sourceChecksum |-> readU32Val(f5),
              targetChecksum |-> readU32Val(f6),
              patchChecksum |-> readU32Val(f7)]
    IN  IF v1.loops \/ v2.loops \/ v3.loops THEN [loops |-> TRUE]
        ELSE IF r.loops THEN [loops |-> TRUE]
        ELSE IF p.patchChecksum # BPS_calculateFileChecksum(p)
        THEN [error |-> "InvalidPatchFileError"]
        ELSE p

\* targetReadFlush of createBPSFromFilesLinear: the action list afterwards.  The
\* bytes pushed are targetData[offset .. offset + targetReadLength), all below
\* the target's size.
BPS_targetReadFlush(patchActions, targetData, outputOffset, targetReadLength) ==
    IF targetReadLength # 0
    THEN Append(patchActions,
             [type |-> BPS_ACTION_TARGET_READ, length |-> targetReadLength,
              bytes |-> Slice(targetData, outputOffset - targetReadLength,
                              outputOffset)])
    ELSE patchActions

RECURSIVE BPS_matchLength(_, _, _, _, _)
\* the two counting loops of createBPSFromFilesLinear: the number of n from
\* `n` on, with outputOffset + n < limit, before a[outputOffset + n] differs from
\* the byte it is compared with (b[outputOffset + n], or b[outputOffset] when fixed)
BPS_matchLength(a, b, outputOffset, n, lim) ==
    IF outputOffset + n < lim.limit
       /\ At(a, outputOffset + n)
            = At(b, IF lim.fixed THEN outputOffset ELSE outputOffset + n)
    THEN 1 + BPS_matchLength(a, b, outputOffset, n + 1, lim)
    ELSE 0

RECURSIVE BPS_linearLoop(_, _, _, _, _, _)
\* the main loop of createBPSFromFilesLinear
BPS_linearLoop(original, modified_, outputOffset, targetRelativeOffset, targetReadLength, patchActions) ==
    LET sourceData == original.data
        targetData == modified_.data
        sourceSize == original.fileSize
        targetSize == modified_.fileSize
        sourceLength == BPS_matchLength(sourceData, targetData, outputOffset, 0,
                            [limit |-> Min(sourceSize, targetSize), fixed |-> FALSE])
        rleLength == BPS_matchLength(targetData, targetData, outputOffset, 1,
                            [limit |-> targetSize, fixed |-> TRUE])
    IN  IF ~(outputOffset < targetSize)
        THEN BPS_targetReadFlush(patchActions, targetData, outputOffset,
                                 targetReadLength)
        ELSE IF rleLength >= 4
        THEN BPS_linearLoop(original, modified_, outputOffset + 1 + rleLength,
                 outputOffset + rleLength, 0,
                 Append(BPS_targetReadFlush(patchActions, targetData,
                                            outputOffset + 1, targetReadLength + 1),
                        [type |-> BPS_ACTION_TARGET_COPY, length |-> rleLength,
                         relativeOffset |-> outputOffset - targetRelativeOffset]))
        ELSE IF sourceLength >= 4
        THEN BPS_linearLoop(original, modified_, outputOffset + sourceLength,
                 targetRelativeOffset, 0,
                 Append(BPS_targetReadFlush(patchActions, targetData, outputOffset,
                                            targetReadLength),
                        [type |-> BPS_ACTION_SOURCE_READ, length |-> sourceLength]))
        ELSE BPS_linearLoop(original, modified_, outputOffset + 1,
                 targetRelativeOffset, targetReadLength + 1, patchActions)

createBPSFromFilesLinear(original, modified_) ==
    BPS_linearLoop(original, modified_, 0, 0, 0, <<>>)

\* BPS.create (deltaMode falls back to the linear algorithm)
BPS_create(originalFile, modifiedFile) ==
    LET p == [BPSPatch EXCEPT !.sourceSize = originalFile.fileSize,
                              !.targetSize = modifiedFile.fileSize,
                              !.actions = createBPSFromFilesLinear(originalFile,
                                                                   modifiedFile),
                              !.sourceChecksum = hashCRC32(originalFile, 0, Undefined),
                              !.targetChecksum = hashCRC32(modifiedFile, 0, Undefined)]
    IN  [p EXCEPT !.patchChecksum = BPS_calculateFileChecksum(p)]

RECURSIVE BPS_snapshotBytes(_, _, _)
\* data[relativeOffset], data[relativeOffset + 1], ...: n values of an array
\* that does not change while they are read
BPS_snapshotBytes(data, relativeOffset, n) ==
    IF n = 0 THEN <<>>
    ELSE <<ToU8(At(data, relativeOffset))>>
         \o BPS_snapshotBytes(data, relativeOffset + 1, n - 1)

\* the copy made block-wise: all bytes are read before the first is written
BPS_copyBytes_Block(tempFile, from, relativeOffset, actionLength) ==
    writeBytes(tempFile,
               BPS_snapshotBytes(IF from.self THEN tempFile.data ELSE from.data,
                                 relativeOffset, actionLength))

RECURSIVE BPS_copyBytes(_, _, _, _)
\* the while (actionLength--) loops of BPSPatch.apply: writes
\* from[relativeOffset], from[relativeOffset + 1], ... to tempFile, where from
\* is romFile._u8array (from.self = FALSE, SourceCopy) or tempFile._u8array as
\* it is when each byte is read (from.self = TRUE, TargetCopy)
BPS_copyBytes(tempFile, from, relativeOffset, actionLength) ==
    IF actionLength = 0 THEN tempFile
    ELSE Then(writeU8(tempFile,
                  At(IF from.self THEN tempFile.data ELSE from.data,
                     relativeOffset)),
              LAMBDA g : BPS_copyBytes(g, from, relativeOffset + 1, actionLength - 1))

RECURSIVE BPS_applyActions(_, _, _, _, _, _)
\* the action loop of BPSPatch.apply
BPS_applyActions(actions, i, romFile, tempFile, sourceRelativeOffset, targetRelativeOffset) ==
    IF i > Len(actions) THEN tempFile
    ELSE LET action == actions[i]
         IN  IF action.type = BPS_ACTION_SOURCE_READ
             THEN Then(skip(copyTo(romFile, tempFile, tempFile.offset, action.length),
                            action.length),
                       LAMBDA g : BPS_applyActions(actions, i + 1, romFile, g,
                                      sourceRelativeOffset, targetRelativeOffset))
             ELSE IF action.type = BPS_ACTION_TARGET_READ
             THEN Then(writeBytes(tempFile, Uint8ArrayFrom(action.bytes)),
                       LAMBDA g : BPS_applyActions(actions, i + 1, romFile, g,
                                      sourceRelativeOffset, targetRelativeOffset))
             ELSE IF action.type = BPS_ACTION_SOURCE_COPY
             THEN Then(BPS_copyBytes(tempFile, [self |-> FALSE, data |-> romFile.data],
                           sourceRelativeOffset + action.relativeOffset, action.length),
                       LAMBDA g : BPS_applyActions(actions, i + 1, romFile, g,
                                      sourceRelativeOffset + action.relativeOffset
                                          + action.length,
                                      targetRelativeOffset))
             ELSE Then(BPS_copyBytes(tempFile, [self |-> TRUE],
                           targetRelativeOffset + action.relativeOffset, action.length),
                       LAMBDA g : BPS_applyActions(actions, i + 1, romFile, g,
                                      sourceRelativeOffset,
                                      targetRelativeOffset + action.relativeOffset
                                          + action.length))

BPS_validateSource(p, romFile, headerSize) ==
    p.sourceChecksum = hashCRC32(romFile, headerSize, Undefined)

\* BPSPatch.apply(romFile, validate): the file returned, or the error thrown
BPS_apply(p, romFile, validate) ==
    IF validate /\ ~BPS_validateSource(p, romFile, 0)
    THEN [error |-> "SourceChecksumMismatch"]
    ELSE LET tempFile == BPS_applyActions(p.actions, 1, romFile,
                             BinFileOfSize(p.targetSize), 0, 0)
         IN  IF validate /\ p.targetChecksum # hashCRC32(tempFile, 0, Undefined)
             THEN [error |-> "TargetChecksumMismatch"]
             ELSE tempFile

(***************************************************************************)
(* SpecBPS: BPS.create / apply on two ROMs, and export / fromFile on       *)
(* patches built by create or by hand.                                     *)
(***************************************************************************)
MaxBPSRomLen == 5
BPSRomBytes == {0, 1}
BPSRoms == {BinFileOfBytes(b) : b \in SeqsUpTo(BPSRomBytes, MaxBPSRomLen)}

BPSSizes == {0, 128, 20000}
\* '' and '<a>'
BPSMetaData == {<<>>, <<60, 97, 62>>}
\* <<sourceChecksum, targetChecksum>>
BPSChecksums == {<<<<0, 0>>, <<0, 0>>>>, <<<<52212, 14630>>, <<65535, 65535>>>>}
BPSActions ==
    {[type |-> BPS_ACTION_SOURCE_READ, length |-> 33],
     [type |-> BPS_ACTION_TARGET_READ, length |-> 2, bytes |-> <<0, 255>>],
     [type |-> BPS_ACTION_SOURCE_COPY, length |-> 1, relativeOffset |-> 0],
     [type |-> BPS_ACTION_SOURCE_COPY, length |-> 40, relativeOffset |-> -200],
     [type |-> BPS_ACTION_TARGET_COPY, length |-> 1, relativeOffset |-> -1],
     [type |-> BPS_ACTION_TARGET_COPY, length |-> 33, relativeOffset |-> 64]}

InitBPS ==
    /\ \/ pc = "init" /\ source \in BPSRoms /\ modified \in BPSRoms
       \/ pc = "new" /\ source = EmptyRom /\ modified = EmptyRom
    /\ patch = BPSPatch
    /\ patchFile = None
    /\ parsed = None
    /\ target = None

\* patch = BPS.create(source, modified)
BPSCreate ==
    /\ pc = "init"
    /\ pc' = "created"
    /\ patch' = BPS_create(source, modified)
    /\ UNCHANGED <<source, modified, patchFile, parsed, target>>

\* target = patch.apply(source)
BPSApply ==
    /\ pc = "created"
    /\ pc' = "applied"
    /\ target' = BPS_apply(patch, source, TRUE)
    /\ UNCHANGED <<source, modified, patch, patchFile, parsed>>

\* a patch built by hand: the header fields
BPSSetHeader ==
    /\ pc = "new"
    /\ pc' = "actions"
    /\ \E s \in BPSSizes, t \in BPSSizes, m \in BPSMetaData, c \in BPSChecksums :
          patch' = [patch EXCEPT !.sourceSize = s, !.targetSize = t, !.metaData = m,
                                 !.sourceChecksum = c[1], !.targetChecksum = c[2]]
    /\ UNCHANGED <<source, modified, patchFile, parsed, target>>

\* patch.actions.push(action)
BPSAddAction ==
    /\ pc = "actions"
    /\ Len(patch.actions) < MaxRecords
    /\ \E action \in BPSActions :
          patch' = [patch EXCEPT !.actions = Append(@, action)]
    /\ UNCHANGED <<pc, source, modified, patchFile, parsed, target>>

\* patch.patchChecksum = patch.calculateFileChecksum(), as BPS.create ends
BPSSetPatchChecksum ==
    /\ pc = "actions"
    /\ pc' = "sealed"
    /\ patch' = [patch EXCEPT !.patchChecksum = BPS_calculateFileChecksum(patch)]
    /\ UNCHANGED <<source, modified, patchFile, parsed, target>>

\* patchFile = patch.export()
BPSExport ==
    /\ pc \in {"created", "sealed"}
    /\ pc' = "exported"
    /\ patchFile' = BPS_export(patch)
    /\ UNCHANGED <<source, modified, patch, parsed, target>>

\* parsed = BPS.fromFile(patchFile); the patch file's cursor is not kept
BPSParse ==
    /\ pc = "exported"
    /\ pc' = "parsed"
    /\ parsed' = BPS_fromFile(patchFile)
    /\ UNCHANGED <<source, modified, patch, patchFile, target>>

NextBPS ==
    \/ BPSCreate
    \/ BPSApply
    \/ BPSSetHeader
    \/ BPSAddAction
    \/ BPSSetPatchChecksum
    \/ BPSExport
    \/ BPSParse

SpecBPS == InitBPS /\ [][NextBPS]_vars

\* C3: BPS create/apply round-trip: applying BPS.create(source, modified) to
\* source yields exactly modified, with a verified target CRC32.
C3_BPSCreateApplyRoundTrip ==
    pc = "applied" => IsFile(target) /\ getBytes(target) = getBytes(modified)

\* C8: BPS export/parse round-trip: for a patch whose patchChecksum was set as
\* create sets it, fromFile(patch.export()) passes the patch-checksum check and
\* yields the same sizes, metadata, action list and three checksums.
C8_BPSExportParseRoundTrip ==
    pc = "parsed" => parsed = patch

\* a parsed patch with a size of 128 or more, an action word of 128 or more and
\* a negative relative offset
C8_Witness ==
    /\ pc = "parsed"
    /\ parsed = patch
    /\ patch.sourceSize >= 128
    /\ \E i \in 1..Len(patch.actions) : BPS_actionWord(patch.actions[i]) >= 128
    /\ \E i \in 1..Len(patch.actions) :
          IsOffsetAction(patch.actions[i]) /\ patch.actions[i].relativeOffset < 0

(***************************************************************************)
(* PPF (src/lib/formats/ppf.ts).  Strings are sequences of character codes. *)
(***************************************************************************)
\* 'PPF'
PPF_MAGIC == <<80, 80, 70>>
\* '@BEGIN_FILE_ID.DIZ' and '@END_FILE_ID.DIZ'
PPF_BEGIN_FILE_ID_DIZ_MAGIC ==
    <<64, 66, 69, 71, 73, 78, 95, 70, 73, 76, 69, 95, 73, 68, 46, 68, 73, 90>>
PPF_END_FILE_ID_DIZ == <<64, 69, 78, 68, 95, 70, 73, 76, 69, 95, 73, 68, 46, 68, 73, 90>>
PPF_IMAGETYPE_BIN == 0

\* new PPFPatch().  blockCheck is [bool |-> b] or [array |-> bytes]; fileIdDiz
\* is None or [str |-> s]; inputFileSize is Undefined or a number; the default
\* description 'Patch description'
PPFPatch ==
    [version |-> 3, imageType |-> PPF_IMAGETYPE_BIN, blockCheck |-> [bool |-> FALSE],
     undoData |-> FALSE, records |-> <<>>,
     description |-> <<80, 97, 116, 99, 104, 32, 100, 101, 115, 99, 114, 105,
                       112, 116, 105, 111, 110>>,
     fileIdDiz |-> None, inputFileSize |-> Undefined]

\* addRecord(offset, data, undoData); undoData is None when omitted
PPF_addRecord(p, offset, data, undoData) ==
    [p EXCEPT !.records =
        Append(@, [offset |-> offset, data |-> data, undoData |-> undoData])]

IsArray(x) == "array" \in DOMAIN x
\* truthiness of blockCheck (an array is truthy) and of fileIdDiz (a non-empty string)
PPF_blockCheckOn(p) == IsArray(p.blockCheck) \/ p.blockCheck.bool
PPF_hasFileIdDiz(p) == p.fileIdDiz # None /\ p.fileIdDiz.str # <<>>

RECURSIVE PadEnd(_, _, _)
\* str.padEnd(n, c)
PadEnd(str, n, c) == IF Len(str) >= n THEN str ELSE PadEnd(Append(str, c), n, c)

RECURSIVE TrimEnd(_, _)
\* str.replace(/c+$/, '')
TrimEnd(str, c) ==
    IF str # <<>> /\ str[Len(str)] = c THEN TrimEnd(SubSeq(str, 1, Len(str) - 1), c)
    ELSE str

\* (n).toString().padStart(2, '0') for 0 <= n < 100
TwoDigits(n) == <<48 + (n \div 10), 48 + (n % 10)>>

IsDigit(c) == c >= 48 /\ c <= 57
\* parseInt of a two-character string without leading white space or sign;
\* Undefined is NaN
ParseInt2(str) ==
    IF Len(str) >= 1 /\ IsDigit(str[1])
    THEN IF Len(str) >= 2 /\ IsDigit(str[2])
         THEN (str[1] - 48) * 10 + (str[2] - 48)
         ELSE str[1] - 48
    ELSE Undefined

\* PPFPatch.validateSource: [result, romFile]
PPF_validateSource(p, romFile) ==
    IF p.version = 2 /\ Truthy(p.inputFileSize)
    THEN [result |-> romFile.fileSize = p.inputFileSize, romFile |-> romFile]
    ELSE IF IsArray(p.blockCheck) /\ Len(p.blockCheck.array) = 1024
    THEN [result |-> readBytesVal(seek(romFile, 0), 1024) = p.blockCheck.array,
          romFile |-> readBytesFile(seek(romFile, 0), 1024)]
    ELSE [result |-> TRUE, romFile |-> romFile]

RECURSIVE PPF_applyRecords(_, _, _)
PPF_applyRecords(records, i, tempFile) ==
    IF i > Len(records) THEN tempFile
    ELSE Then(writeBytes(seek(tempFile, records[i].offset),
                         Uint8ArrayFrom(records[i].data)),
              LAMBDA g : PPF_applyRecords(records, i + 1, g))

\* PPFPatch.apply(romFile, validate): [result, romFile]
PPF_apply(p, romFile, validate) ==
    LET v == PPF_validateSource(p, romFile)
    IN  IF validate /\ ~v.result
        THEN [result |-> [error |-> "SourceValidationFailed"], romFile |-> v.romFile]
        ELSE [result |-> PPF_applyRecords(p.records, 1, clone(romFile)),
              romFile |-> IF validate THEN v.romFile ELSE romFile]

RECURSIVE PPF_exportSize(_, _, _)
\* the size loop of PPFPatch.export over records[i..]
PPF_exportSize(records, i, version) ==
    IF i > Len(records) THEN 0
    ELSE 4 + 1 + Len(records[i].data) + (IF version = 3 THEN 4 ELSE 0)
         + PPF_exportSize(records, i + 1, version)

\* one iteration of the record loop of PPFPatch.export.  In JavaScript a shift
\* count is taken modulo 32, so (record.offset >> 32) is record.offset.
PPF_exportRecord(f, p, record) ==
    LET f1 == IF p.version = 3
              THEN writeU32(writeU32(f, U32(record.offset)), U32(record.offset))
              ELSE writeU32(f, U32(record.offset))
        f2 == writeBytes(writeU8(f1, Len(record.data)), Uint8ArrayFrom(record.data))
    IN  IF p.undoData /\ record.undoData # None
        THEN writeBytes(f2, Uint8ArrayFrom(record.undoData.bytes))
        ELSE f2

RECURSIVE PPF_exportRecords(_, _, _)
PPF_exportRecords(p, i, f) ==
    IF i > Len(p.records) THEN f
    ELSE Then(PPF_exportRecord(f, p, p.records[i]),
              LAMBDA g : PPF_exportRecords(p, i + 1, g))

PPF_export(p) ==
    LET patchFileSize ==
            5 + 1 + 50 + PPF_exportSize(p.records, 1, p.version)
            + (IF p.version = 3 \/ p.version = 2 THEN 4 ELSE 0)
            + (IF PPF_blockCheckOn(p) THEN 1024 ELSE 0)
            + (IF PPF_hasFileIdDiz(p) THEN 18 + Len(p.fileIdDiz.str) + 16 + 4 ELSE 0)
        f0 == writeBytes(writeBytes(BinFileOfSize(patchFileSize), PPF_MAGIC),
                         TwoDigits(p.version * 10))
        f1 == writeBytes(writeU8(f0, p.version + 1), PadEnd(p.description, 50, 32))
        f2 == IF p.version = 3
              THEN writeU8(writeU8(writeU8(writeU8(f1, p.imageType),
                       IF PPF_blockCheckOn(p) THEN 1 ELSE 0),
                       IF p.undoData THEN 1 ELSE 0), 0)
              ELSE IF p.version = 2
              THEN writeU32(f1, U32(IF Truthy(p.inputFileSize)
                                    THEN p.inputFileSize ELSE 0))
              ELSE f1
        f3 == IF IsArray(p.blockCheck)
              THEN writeBytes(f2, Uint8ArrayFrom(p.blockCheck.array)) ELSE f2
        f4 == PPF_exportRecords(p, 1, [f3 EXCEPT !.littleEndian = TRUE])
    IN  IF PPF_hasFileIdDiz(p)
        THEN writeBytes(writeBytes(
                 writeU32(writeU8(writeU8(
                     writeBytes(f4, PPF_BEGIN_FILE_ID_DIZ_MAGIC), 0), 0),
                     U32(Len(p.fileIdDiz.str) + 16)),
                 p.fileIdDiz.str), PPF_END_FILE_ID_DIZ)
        ELSE f4

RECURSIVE IndexOf(_, _, _)
\* str.indexOf(sub), searching from position i (0-based); -1 when absent
IndexOf(str, sub, i) ==
    IF i + Len(sub) > Len(str) THEN -1
    ELSE IF SubSeq(str, i + 1, i + Len(sub)) = sub THEN i
    ELSE IndexOf(str, sub, i + 1)

\* a 32-bit value <<high 16 bits, low 16 bits>> as a number (below 2^31)
U32ToNumber(w) == w[1] * 65536 + w[2]

\* offset = u64_1 + u64_2 * 0x100000000: a number when u64_2 = 0; a larger
\* offset is kept as its two words
PPF_offset64(u64_1, u64_2) ==
    IF u64_2 = <<0, 0>> THEN U32ToNumber(u64_1)
    ELSE [u64_1 |-> u64_1, u64_2 |-> u64_2]

RECURSIVE PPF_readRecords(_, _)
\* the record loop of PPF.fromFile
PPF_readRecords(f, p) ==
    IF isEOF(f) THEN p
    ELSE IF readBytesVal(f, 4) = SubSeq(PPF_BEGIN_FILE_ID_DIZ_MAGIC, 2, 5)
    THEN LET g == skip(readBytesFile(f, 4), 14)
             s == readBytesVal(g, 3072)
             end == IndexOf(s, PPF_END_FILE_ID_DIZ, 0)
         IN  \* substr(0, -1) is the empty string
             [p EXCEPT !.fileIdDiz =
                 [str |-> IF end < 0 THEN <<>> ELSE SubSeq(s, 1, end)]]
    ELSE LET f0 == skip(readBytesFile(f, 4), -4)
             u64_1 == readU32Val(f0)
             f1 == readU32File(f0)
             offset == IF p.version = 3
                       THEN PPF_offset64(u64_1, readU32Val(f1))
                       ELSE U32ToNumber(u64_1)
             f2 == IF p.version = 3 THEN readU32File(f1) ELSE f1
             len == readU8Val(f2)
             f3 == readU8File(f2)
             data == readBytesVal(f3, len)
             f4 == readBytesFile(f3, len)
         IN  IF p.undoData
             THEN PPF_readRecords(readBytesFile(f4, len),
                      PPF_addRecord(p, offset, data, [bytes |-> readBytesVal(f4, len)]))
             ELSE PPF_readRecords(f4, PPF_addRecord(p, offset, data, None))

\* PPF.fromFile: the patch, or the error thrown
PPF_fromFile(file) ==
    LET f0 == seek(file, 3)
        n == ParseInt2(readBytesVal(f0, 2))
        f1 == readBytesFile(f0, 2)
        version2 == readU8Val(f1) + 1
        f2 == readU8File(f1)
        \* version1 = n / 10 equals the integer version2 only if n = 10 * version2
        version1 == n \div 10
        description == TrimEnd(readBytesVal(f2, 50), 32)
        f3 == readBytesFile(f2, 50)
        f4 == readU8File(f3)
        f5 == readU8File(f4)
        f6 == skip(readU8File(f5), 1)
        p3 == [PPFPatch EXCEPT
                 !.version = version1, !.description = description,
                 !.imageType = IF version1 = 3 THEN readU8Val(f3) ELSE @,
                 !.blockCheck = IF version1 = 3
                                THEN [bool |-> readU8Val(f4) # 0]
                                ELSE [bool |-> version1 = 2],
                 !.undoData = version1 = 3 /\ readU8Val(f5) # 0,
                 !.inputFileSize = IF version1 = 2
                                   THEN U32ToNumber(readU32Val(f3)) ELSE @]
        f7 == IF version1 = 3 THEN f6
              ELSE IF version1 = 2 THEN readU32File(f3) ELSE f3
        p4 == IF p3.blockCheck.bool
              THEN [p3 EXCEPT !.blockCheck = [array |-> readBytesVal(f7, 1024)]]
              ELSE p3
        f8 == IF p3.blockCheck.bool THEN readBytesFile(f7, 1024) ELSE f7
    IN  IF n = Undefined \/ n # 10 * version2 \/ version1 > 3
        THEN [error |-> "InvalidPatchFileError"]
        ELSE PPF_readRecords([f8 EXCEPT !.littleEndian = TRUE], p4)

RECURSIVE PPF_differentData(_, _, _, _)
\* the inner loop of PPF.create, entered with b1 # b2:
\* [differentData, originalFile, modifiedFile].  b1 and b2 are the constants of
\* the outer iteration: the loop pushes b2 every time round.
PPF_differentData(originalFile, modifiedFile, b2, differentData) ==
    IF ~(Len(differentData) < 255)
    THEN [differentData |-> differentData, originalFile |-> originalFile,
          modifiedFile |-> modifiedFile]
    ELSE LET pushed == Append(differentData, b2)
             nb1 == readOrZeroVal(originalFile)
             o1 == readOrZeroFile(originalFile)
             nb2 == readU8Val(modifiedFile)
             m1 == readU8File(modifiedFile)
         IN  IF isEOF(modifiedFile) \/ Len(pushed) = 255
             THEN [differentData |-> pushed, originalFile |-> originalFile,
                   modifiedFile |-> modifiedFile]
             ELSE IF nb1 = nb2
             THEN [differentData |-> pushed, originalFile |-> o1, modifiedFile |-> m1]
             ELSE PPF_differentData(o1, m1, b2, pushed)

RECURSIVE PPF_createLoop(_, _, _)
\* the outer loop of PPF.create: [patch, originalFile, modifiedFile]
PPF_createLoop(originalFile, modifiedFile, p) ==
    IF isEOF(modifiedFile)
    THEN [patch |-> p, originalFile |-> originalFile, modifiedFile |-> modifiedFile]
    ELSE LET b1 == readOrZeroVal(originalFile)
             o1 == readOrZeroFile(originalFile)
             b2 == readU8Val(modifiedFile)
             m1 == readU8File(modifiedFile)
             d == PPF_differentData(o1, m1, b2, <<>>)
         IN  IF b1 # b2
             THEN PPF_createLoop(d.originalFile, d.modifiedFile,
                      PPF_addRecord(p, m1.offset - 1, d.differentData, None))
             ELSE PPF_createLoop(o1, m1, p)

\* PPF.create: [patch, originalFile, modifiedFile]; modifiedFile is the caller's
\* file, which create reads only when it is not shorter than originalFile
PPF_create(originalFile, modifiedFile) ==
    LET shorter == originalFile.fileSize > modifiedFile.fileSize
        expandedModified == copyTo(modifiedFile, BinFileOfSize(originalFile.fileSize),
                                   0, Undefined)
        r == PPF_createLoop(seek(originalFile, 0),
                 seek(IF shorter THEN expandedModified ELSE modifiedFile, 0),
                 PPFPatch)
        m == r.modifiedFile
        last == seek(m, m.fileSize - 1)
        p == IF originalFile.fileSize < m.fileSize /\ readU8Val(last) = 0
             THEN PPF_addRecord(r.patch, m.fileSize - 1, <<0>>, None)
             ELSE r.patch
    IN  [patch |-> p, originalFile |-> r.originalFile,
         modifiedFile |-> IF shorter THEN modifiedFile
                          ELSE IF originalFile.fileSize < m.fileSize
                          THEN readU8File(last) ELSE m]

(***************************************************************************)
(* SpecPPF: PPF.create / apply on two ROMs, and export / fromFile on       *)
(* patches built by hand.                                                  *)
(***************************************************************************)
PPFVersions == {1, 2, 3}
\* offsets of one, two and three bytes, and the largest below 2^31
PPFOffsets == {0, 3, 66051, 2147483647}
PPFPayloads == {<<1>>, <<0, 255>>}
\* '' and 'ab'
PPFDescriptions == {<<>>, <<97, 98>>}

InitPPF ==
    /\ \/ pc = "init" /\ source \in Roms /\ modified \in Roms
       \/ pc = "new" /\ source = EmptyRom /\ modified = EmptyRom
    /\ patch = PPFPatch
    /\ patchFile = None
    /\ parsed = None
    /\ target = None

\* patch = PPF.create(source, modified)
PPFCreate ==
    /\ pc = "init"
    /\ pc' = "created"
    /\ LET r == PPF_create(source, modified)
       IN  patch' = r.patch /\ source' = r.originalFile /\ modified' = r.modifiedFile
    /\ UNCHANGED <<patchFile, parsed, target>>

\* target = patch.apply(source)
PPFApply ==
    /\ pc = "created"
    /\ pc' = "applied"
    /\ LET r == PPF_apply(patch, source, TRUE)
       IN  target' = r.result /\ source' = r.romFile
    /\ UNCHANGED <<modified, patch, patchFile, parsed>>

\* a patch built by hand: version and description
PPFSetHeader ==
    /\ pc = "new"
    /\ pc' = "records"
    /\ \E v \in PPFVersions, d \in PPFDescriptions :
          patch' = [patch EXCEPT !.version = v, !.description = d]
    /\ UNCHANGED <<source, modified, patchFile, parsed, target>>

\* patch.addRecord(offset, data)
PPFAddRecord ==
    /\ pc = "records"
    /\ Len(patch.records) < MaxRecords
    /\ \E o \in PPFOffsets, d \in PPFPayloads :
          patch' = PPF_addRecord(patch, o, d, None)
    /\ UNCHANGED <<pc, source, modified, patchFile, parsed, target>>

\* patchFile = patch.export()
PPFExport ==
    /\ pc \in {"records", "created"}
    /\ pc' = "exported"
    /\ patchFile' = PPF_export(patch)
    /\ UNCHANGED <<source, modified, patch, parsed, target>>

\* parsed = PPF.fromFile(patchFile); the patch file's cursor is not kept
PPFParse ==
    /\ pc = "exported"
    /\ pc' = "parsed"
    /\ parsed' = PPF_fromFile(patchFile)
    /\ UNCHANGED <<source, modified, patch, patchFile, target>>

NextPPF ==
    \/ PPFCreate
    \/ PPFApply
    \/ PPFSetHeader
    \/ PPFAddRecord
    \/ PPFExport
    \/ PPFParse

SpecPPF == InitPPF /\ [][NextPPF]_vars

\* C4: PPF create/apply round-trip: when modified is at least as long as source,
\* applying PPF.create(source, modified) to source yields exactly modified.
C4_PPFCreateApplyRoundTrip ==
    (pc = "applied" /\ modified.fileSize >= source.fileSize)
        => IsFile(target) /\ getBytes(target) = getBytes(modified)

\* C9: PPF export/parse round-trip: for a patch of version 1, 2 or 3,
\* fromFile(patch.export()) is accepted and yields the same version,
\* description, flags and records.
C9_PPFExportParseRoundTrip ==
    pc = "parsed" =>
        /\ "error" \notin DOMAIN parsed
        /\ parsed.version = patch.version
        /\ parsed.description = patch.description
        /\ parsed.imageType = patch.imageType
        /\ parsed.undoData = patch.undoData
        /\ parsed.records = patch.records

(***************************************************************************)
(* APS-GBA (src/lib/formats/aps-gba.ts): buildFromRoms and apply.          *)
(***************************************************************************)
\* The block size, 0x010000 in the source, scaled down so that ROMs of a few
\* bytes have several blocks.
APS_GBA_BLOCK_SIZE == 2

\* new APSGBAPatch()
APSGBAPatch == [sourceSize |-> 0, targetSize |-> 0, apsRecords |-> <<>>]

APSGBA_addRecord(p, offset, sourceCrc16, targetCrc16, xorBytes) ==
    [p EXCEPT !.apsRecords =
        Append(@, [offset |-> offset, sourceCrc16 |-> sourceCrc16,
                   targetCrc16 |-> targetCrc16, xorBytes |-> xorBytes])]

RECURSIVE CRC16Bits(_, _)
\* the inner loop of hashCRC16, j = k .. 7.  Only the low 16 bits of crc reach
\* the result (crc & 0xffff) or the test (crc & 0x8000), so crc is kept to 16 bits.
CRC16Bits(crc, k) ==
    IF k >= 8 THEN crc
    ELSE CRC16Bits(IF (crc \div 32768) % 2 = 1
                   THEN BitXor((crc * 2) % 65536, 4129)
                   ELSE (crc * 2) % 65536,
                   k + 1)

RECURSIVE CRC16Update(_, _, _)
CRC16Update(crc, data, i) ==
    IF i > Len(data) THEN crc
    ELSE Then(CRC16Bits(BitXor(crc, data[i] * 256), 0),
              LAMBDA c : CRC16Update(c, data, i + 1))

\* hashCRC16(startOffset, length); length = 0 or Undefined selects the file's end
hashCRC16(f, startOffset, length) ==
    LET endOffset == IF Truthy(length) THEN startOffset + length ELSE f.fileSize
    IN  CRC16Update(65535, Slice(f.data, startOffset, Min(endOffset, f.fileSize)), 1)

RECURSIVE APSGBA_validateRecords(_, _, _, _)
\* the record loop of validateSource: [result, sourceFile]
APSGBA_validateRecords(records, i, sourceFile, skipHeaderSize) ==
    IF i > Len(records) THEN [result |-> TRUE, sourceFile |-> sourceFile]
    ELSE LET g == seek(sourceFile, records[i].offset + skipHeaderSize)
         IN  IF hashCRC16(g, records[i].offset + skipHeaderSize, APS_GBA_BLOCK_SIZE)
                  # records[i].sourceCrc16
             THEN [result |-> FALSE, sourceFile |-> g]
             ELSE APSGBA_validateRecords(records, i + 1, g, skipHeaderSize)

\* APSGBAPatch.validateSource: [result, sourceFile]
APSGBA_validateSource(p, sourceFile, skipHeaderSize) ==
    IF sourceFile.fileSize # p.sourceSize
    THEN [result |-> FALSE, sourceFile |-> sourceFile]
    ELSE APSGBA_validateRecords(p.apsRecords, 1, sourceFile, skipHeaderSize)

\* a ^ b where b may be undefined
XorByte(a, b) == BitXor(a, IF b = Undefined THEN 0 ELSE b)

RECURSIVE APSGBA_applyBlock(_, _, _, _)
\* the loop over j of APSGBAPatch.apply: [romFile, tempFile]
APSGBA_applyBlock(romFile, tempFile, xorBytes, j) ==
    IF ~(j < APS_GBA_BLOCK_SIZE) THEN [romFile |-> romFile, tempFile |-> tempFile]
    ELSE Then(writeU8(tempFile, XorByte(readU8Val(romFile), At(xorBytes, j))),
              LAMBDA g : APSGBA_applyBlock(readU8File(romFile), g, xorBytes, j + 1))

RECURSIVE APSGBA_applyRecords(_, _, _, _)
\* the record loop of APSGBAPatch.apply: [result, romFile]
APSGBA_applyRecords(records, i, romFile, tempFile) ==
    IF i > Len(records) THEN [result |-> tempFile, romFile |-> romFile]
    ELSE LET b == APSGBA_applyBlock(seek(romFile, records[i].offset),
                                    seek(tempFile, records[i].offset),
                                    records[i].xorBytes, 0)
         IN  IF hashCRC16(b.tempFile, records[i].offset, APS_GBA_BLOCK_SIZE)
                  # records[i].targetCrc16
             THEN [result |-> [error |-> "TargetChecksumMismatch"],
                   romFile |-> b.romFile]
             ELSE APSGBA_applyRecords(records, i + 1, b.romFile, b.tempFile)

\* APSGBAPatch.apply: [result, romFile]
APSGBA_apply(p, romFile) ==
    LET v == APSGBA_validateSource(p, romFile, 0)
        r == v.sourceFile
    IN  IF ~v.result
        THEN [result |-> [error |-> "SourceChecksumMismatch"], romFile |-> r]
        ELSE APSGBA_applyRecords(p.apsRecords, 1, r,
                 copyTo(r, BinFileOfSize(p.targetSize), 0, r.fileSize))

RECURSIVE APSGBA_readBlock(_, _, _, _)
\* the block-reading loop of buildFromRoms, i = Len(b.originalBlock) .. blockSize - 1:
\* [originalBlock, modifiedBlock, original, modified]
APSGBA_readBlock(original, modified_, blockSize, b) ==
    IF ~(Len(b.originalBlock) < blockSize)
    THEN [originalBlock |-> b.originalBlock, modifiedBlock |-> b.modifiedBlock,
          original |-> original, modified |-> modified_]
    ELSE APSGBA_readBlock(readOrZeroFile(original), readOrZeroFile(modified_), blockSize,
             [originalBlock |-> Append(b.originalBlock, readOrZeroVal(original)),
              modifiedBlock |-> Append(b.modifiedBlock, readOrZeroVal(modified_))])

RECURSIVE APSGBA_xorBytes(_, _, _, _)
\* the XOR block of buildFromRoms: APS_GBA_BLOCK_SIZE bytes, zero past blockSize
APSGBA_xorBytes(originalBlock, modifiedBlock, blockSize, i) ==
    IF ~(i < APS_GBA_BLOCK_SIZE) THEN <<>>
    ELSE <<IF i < blockSize
           THEN BitXor(originalBlock[i + 1], modifiedBlock[i + 1]) ELSE 0>>
         \o APSGBA_xorBytes(originalBlock, modifiedBlock, blockSize, i + 1)

RECURSIVE APSGBA_buildLoop(_, _, _, _)
\* the block loop of buildFromRoms: [patch, original, modified]
APSGBA_buildLoop(original, modified_, offset, p) ==
    LET size == Max(original.fileSize, modified_.fileSize)
        blockSize == Min(APS_GBA_BLOCK_SIZE, size - offset)
        b == APSGBA_readBlock(seek(original, offset), seek(modified_, offset),
                              blockSize, [originalBlock |-> <<>>, modifiedBlock |-> <<>>])
        needsPatch == b.originalBlock # b.modifiedBlock
        m == seek(b.modified, offset)
    IN  IF ~(offset < size)
        THEN [patch |-> p, original |-> original, modified |-> modified_]
        ELSE IF needsPatch
        THEN APSGBA_buildLoop(b.original, m, offset + APS_GBA_BLOCK_SIZE,
                 APSGBA_addRecord(p, offset,
                     hashCRC16(b.original, offset, APS_GBA_BLOCK_SIZE),
                     hashCRC16(m, offset, APS_GBA_BLOCK_SIZE),
                     APSGBA_xorBytes(b.originalBlock, b.modifiedBlock, blockSize, 0)))
        ELSE APSGBA_buildLoop(b.original, b.modified, offset + APS_GBA_BLOCK_SIZE, p)

\* APSGBAPatch.buildFromRoms: [patch, original, modified]; modified is the
\* caller's file, which build reads only when it is not shorter than original
APSGBA_buildFromRoms(original, modified_) ==
    LET shorter == original.fileSize > modified_.fileSize
        expandedModified == copyTo(modified_, BinFileOfSize(original.fileSize),
                                   0, Undefined)
        r == APSGBA_buildLoop(seek(original, 0),
                 seek(IF shorter THEN expandedModified ELSE modified_, 0), 0,
                 [APSGBAPatch EXCEPT !.sourceSize = original.fileSize,
                                     !.targetSize = modified_.fileSize])
    IN  [patch |-> r.patch, original |-> r.original,
         modified |-> IF shorter THEN modified_ ELSE r.modified]

(***************************************************************************)
(* SpecAPSGBA: buildFromRoms / apply on two ROMs.                          *)
(***************************************************************************)
InitAPSGBA ==
    /\ pc = "init"
    /\ source \in Roms
    /\ modified \in Roms
    /\ patch = APSGBAPatch
    /\ patchFile = None
    /\ parsed = None
    /\ target = None

\* patch = APSGBAPatch.buildFromRoms(source, modified)
APSGBABuild ==
    /\ pc = "init"
    /\ pc' = "created"
    /\ LET r == APSGBA_buildFromRoms(source, modified)
       IN  patch' = r.patch /\ source' = r.original /\ modified' = r.modified
    /\ UNCHANGED <<patchFile, parsed, target>>

\* target = patch.apply(source)
APSGBAApply ==
    /\ pc = "created"
    /\ pc' = "applied"
    /\ LET r == APSGBA_apply(patch, source)
       IN  target' = r.result /\ source' = r.romFile
    /\ UNCHANGED <<modified, patch, patchFile, parsed>>

NextAPSGBA ==
    \/ APSGBABuild
    \/ APSGBAApply

SpecAPSGBA == InitAPSGBA /\ [][NextAPSGBA]_vars

\* C5: APS-GBA build/apply round-trip: for source and modified of equal size
\* made of whole blocks, buildFromRoms(source, modified).apply(source)
\* reproduces modified exactly, whichever blocks differ.
C5_APSGBABuildApplyRoundTrip ==
    (/\ pc = "applied"
     /\ source.fileSize = modified.fileSize
     /\ source.fileSize % APS_GBA_BLOCK_SIZE = 0)
        => IsFile(target) /\ getBytes(target) = getBytes(modified)

(***************************************************************************)
(* SpecVLV: BinFile.writeVLV of a value, then BinFile.readVLV from the     *)
(* position the write started at.  source is the buffer before the write,  *)
(* patch the value, patchFile the buffer after the write, parsed the       *)
(* value read and the buffer after the read.                               *)
(***************************************************************************)
MaxVLVValue == 300
\* every value up to the bound, and the first and last values of 2, 3 and 4 bytes
VLVValues == (0..MaxVLVValue) \cup {16383, 16384, 2097151, 2097152}
\* an empty buffer, a zeroed buffer and a buffer full of 0xff
VLVBuffers == {BinFileOfSize(0), BinFileOfSize(4), BinFileOfBytes(<<255, 255, 255, 255>>)}
VLVStarts == {0, 1}

InitVLV ==
    /\ pc = "init"
    /\ \E b \in VLVBuffers, o \in VLVStarts : source = seek(b, o)
    /\ patch \in VLVValues
    /\ modified = None
    /\ patchFile = None
    /\ parsed = None
    /\ target = None

\* file.writeVLV(value)
VLVWrite ==
    /\ pc = "init"
    /\ pc' = "written"
    /\ patchFile' = writeVLV(source, patch)
    /\ UNCHANGED <<source, modified, patch, parsed, target>>

\* file.seek(start); value = file.readVLV()
VLVRead ==
    /\ pc = "written"
    /\ pc' = "read"
    /\ LET f == seek(patchFile, source.offset)
       IN  parsed' = [value |-> readVLVVal(f), file |-> readVLVFile(f)]
    /\ UNCHANGED <<source, modified, patch, patchFile, target>>

NextVLV ==
    \/ VLVWrite
    \/ VLVRead

SpecVLV == InitVLV /\ [][NextVLV]_vars

\* C10: UPS-style VLV round-trip on the byte cursor: writing x with writeVLV and
\* reading from the same start position with readVLV returns x and consumes
\* exactly the bytes that were written.
C10_VLVRoundTrip ==
    pc = "read" => parsed.value = patch /\ parsed.file.offset = patchFile.offset


(***************************************************************************)
(* RUP variable-length values (src/lib/formats/ups.ts, class RUPPatch).    *)
(***************************************************************************)
\* x << n on a byte x: the shift count is taken modulo 32 and the result is a
\* signed 32-bit integer (only multiples of 8 occur)
ShiftLeft32(x, n) ==
    LET s == n % 32
    IN  IF s = 0 THEN x
        ELSE IF s = 8 THEN x * 256
        ELSE IF s = 16 THEN x * 65536
        ELSE (IF x >= 128 THEN x - 256 ELSE x) * 16777216

RECURSIVE RUP_readVLVLoop(_, _, _, _)
\* for (i = 0; i < nBytes; i++) data += file.readU8() << (i * 8): [value, file]
RUP_readVLVLoop(file, nBytes, i, data) ==
    IF ~(i < nBytes) THEN [value |-> data, file |-> file]
    ELSE Then(data + ShiftLeft32(readU8Val(file), i * 8),
              LAMBDA d : RUP_readVLVLoop(readU8File(file), nBytes, i + 1, d))

\* RUPPatch.readVLV: [value, file]
RUP_readVLV(file) == RUP_readVLVLoop(readU8File(file), readU8Val(file), 0, 0)

RECURSIVE RUP_getVLVLength(_)
\* RUPPatch.getVLVLength, for 0 <= data < 2^31 (data >>= 8 is data \div 256)
RUP_getVLVLength(data) ==
    IF data = 0 THEN 1 ELSE 1 + RUP_getVLVLength(data \div 256)

RECURSIVE RUP_writeVLVLoop(_, _)
\* while (data) { file.writeU8(data & 0xff); data >>= 8 }
RUP_writeVLVLoop(file, data) ==
    IF data = 0 THEN file
    ELSE Then(writeU8(file, data % 256),
              LAMBDA g : RUP_writeVLVLoop(g, data \div 256))

\* RUP_writeVLV with the length byte L instead of L - 1
RUP_writeVLV_NoLengthAdjust(file, data) ==
    RUP_writeVLVLoop(writeU8(file, RUP_getVLVLength(data)), data)

\* RUPPatch.writeVLV
RUP_writeVLV(file, data) ==
    RUP_writeVLVLoop(writeU8(file, RUP_getVLVLength(data) - 1), data)

(***************************************************************************)
(* SpecRUPVLV: RUPPatch.writeVLV of a value, then RUPPatch.readVLV from    *)
(* the position the write started at.  source is the buffer before the     *)
(* write, patch the value, patchFile the buffer after the write, parsed    *)
(* the value read and the buffer after the read.                           *)
(***************************************************************************)
MaxRUPValue == 300
\* every value up to the bound, and the first and last values of 2, 3 and 4
\* value bytes below 2^31
RUPValues == (0..MaxRUPValue) \cup {65535, 65536, 16777215, 16777216, 2147483647}

InitRUPVLV ==
    /\ pc = "init"
    /\ \E b \in VLVBuffers, o \in VLVStarts : source = seek(b, o)
    /\ patch \in RUPValues
    /\ modified = None
    /\ patchFile = None
    /\ parsed = None
    /\ target = None

\* this.writeVLV(file, value)
RUPVLVWrite ==
    /\ pc = "init"
    /\ pc' = "written"
    /\ patchFile' = RUP_writeVLV(source, patch)
    /\ UNCHANGED <<source, modified, patch, parsed, target>>

\* file.seek(start); value = this.readVLV(file)
RUPVLVRead ==
    /\ pc = "written"
    /\ pc' = "read"
    /\ parsed' = RUP_readVLV(seek(patchFile, source.offset))
    /\ UNCHANGED <<source, modified, patch, patchFile, target>>

NextRUPVLV ==
    \/ RUPVLVWrite
    \/ RUPVLVRead

SpecRUPVLV == InitRUPVLV /\ [][NextRUPVLV]_vars

\* C11: RUP-style VLV round-trip: RUPPatch.writeVLV(x) followed by
\* RUPPatch.readVLV from the same position returns x, consumes exactly the
\* bytes written, and the byte count equals getVLVLength(x).
C11_RUPVLVRoundTrip ==
    pc = "read" =>
        /\ parsed.value = patch
        /\ parsed.file.offset = patchFile.offset
        /\ patchFile.offset - source.offset = RUP_getVLVLength(patch)

\* a three-byte value (length byte 3) written into the middle of a buffer and
\* read back
C11_Witness ==
    /\ pc = "read"
    /\ patch = 65536
    /\ source.offset = 1
    /\ parsed.value = 65536
    /\ parsed.file.offset = source.offset + 4


(***************************************************************************)
(* SpecBinFile: any sequence of BinFile operations on a freshly            *)
(* constructed buffer.  source is the buffer, parsed the value returned    *)
(* by the last read.                                                       *)
(***************************************************************************)
\* save(): push the cursor
save(f) == [f EXCEPT !.stack = Append(@, f.offset)]

\* restore(): pop the cursor, if one was saved
restore(f) ==
    IF Len(f.stack) > 0
    THEN [f EXCEPT !.offset = f.stack[Len(f.stack)],
                   !.stack = SubSeq(f.stack, 1, Len(f.stack) - 1)]
    ELSE f

\* the buffer never grows beyond MaxBufLen bytes, the cursor stack never
\* beyond MaxStack entries
MaxBufLen == 4
MaxStack == 1
BinSizes == 0..MaxBufLen
BinSeekOffsets == (0 - 1)..(MaxBufLen + 1)
BinSkips == {0 - 2, 0 - 1, 1, 2}
BinPayloads == {<<>>, <<1>>, <<1, 1>>}

InitBinFile ==
    /\ pc = "open"
    /\ \E n \in 0..2 : source = BinFileOfSize(n)
    /\ modified = None
    /\ patch = None
    /\ patchFile = None
    /\ parsed = None
    /\ target = None

\* an operation that returns nothing and leaves the file g
BinStep(g) ==
    /\ Len(g.data) <= MaxBufLen
    /\ source' = g
    /\ UNCHANGED <<pc, modified, patch, patchFile, parsed, target>>

\* a read that returns v and leaves the file g
BinRead(v, g) ==
    /\ source' = g
    /\ parsed' = [value |-> v]
    /\ UNCHANGED <<pc, modified, patch, patchFile, target>>

BinSeek == \E o \in BinSeekOffsets : BinStep(seek(source, o))
BinSkip == \E n \in BinSkips : BinStep(skip(source, n))
BinSave == Len(source.stack) < MaxStack /\ BinStep(save(source))
BinRestore == BinStep(restore(source))
BinReadU8 == BinRead(readU8Val(source), readU8File(source))
BinReadU16 == BinRead(readU16Val(source), readU16File(source))
BinReadU24 == BinRead(readU24Val(source), readU24File(source))
BinReadU32 == BinRead(readU32Val(source), readU32File(source))
BinReadBytes ==
    \E n \in 0..2 : BinRead(readBytesVal(source, n), readBytesFile(source, n))
BinWriteU8 == BinStep(writeU8(source, 1))
BinWriteU16 == BinStep(writeU16(source, 257))
BinWriteU24 == BinStep(writeU24(source, 65793))
BinWriteU32 == BinStep(writeU32(source, <<257, 257>>))
BinWriteBytes == \E bytes \in BinPayloads : BinStep(writeBytes(source, bytes))
BinExpand == \E n \in BinSizes : BinStep(expand(source, n))
BinTruncate == \E n \in BinSizes : BinStep(truncate(source, n))

NextBinFile ==
    \/ BinSeek
    \/ BinSkip
    \/ BinSave
    \/ BinRestore
    \/ BinReadU8
    \/ BinReadU16
    \/ BinReadU24
    \/ BinReadU32
    \/ BinReadBytes
    \/ BinWriteU8
    \/ BinWriteU16
    \/ BinWriteU24
    \/ BinWriteU32
    \/ BinWriteBytes
    \/ BinExpand
    \/ BinTruncate

SpecBinFile == InitBinFile /\ [][NextBinFile]_vars

\* C12: byte-buffer invariant: after any sequence of BinFile operations
\* starting from a freshly constructed buffer,
\* 0 <= offset <= fileSize <= data.length.
C12_BufferInvariant ==
    /\ 0 <= source.offset
    /\ source.offset <= source.fileSize
    /\ source.fileSize <= Len(source.data)


(***************************************************************************)
(* APS-GBA export and parse (src/lib/formats/aps-gba.ts).                  *)
(***************************************************************************)
\* 'APS1'
APS_GBA_MAGIC == <<65, 80, 83, 49>>
APS_GBA_RECORD_SIZE == 4 + 2 + 2 + APS_GBA_BLOCK_SIZE

RECURSIVE APSGBA_exportRecords(_, _, _)
APSGBA_exportRecords(tempFile, records, i) ==
    IF i > Len(records) THEN tempFile
    ELSE Then(writeBytes(writeU16(writeU16(writeU32(tempFile, U32(records[i].offset)),
                                           records[i].sourceCrc16),
                                  records[i].targetCrc16),
                         records[i].xorBytes),
              LAMBDA g : APSGBA_exportRecords(g, records, i + 1))

\* APSGBAPatch.export
APSGBA_export(p) ==
    LET tempFile == [BinFileOfSize(12 + Len(p.apsRecords) * APS_GBA_RECORD_SIZE)
                        EXCEPT !.littleEndian = TRUE]
    IN  APSGBA_exportRecords(
            writeU32(writeU32(writeBytes(tempFile, APS_GBA_MAGIC), U32(p.sourceSize)),
                     U32(p.targetSize)),
            p.apsRecords, 1)

RECURSIVE APSGBA_readRecords(_, _)
\* while (!patchFile.isEOF()) ... patch.addRecord(...)
APSGBA_readRecords(file, p) ==
    IF isEOF(file) THEN p
    ELSE LET f1 == readU32File(file)
             f2 == readU16File(f1)
             f3 == readU16File(f2)
         IN  Then(APSGBA_addRecord(p, U32ToNumber(readU32Val(file)), readU16Val(f1),
                                   readU16Val(f2), readBytesVal(f3, APS_GBA_BLOCK_SIZE)),
                  LAMBDA q : APSGBA_readRecords(readBytesFile(f3, APS_GBA_BLOCK_SIZE), q))

\* APSGBAPatch.fromFile: the patch, or [null |-> TRUE]
APSGBA_fromFile(file) ==
    LET f == [seek(file, 0) EXCEPT !.littleEndian = TRUE]
        f1 == readBytesFile(f, Len(APS_GBA_MAGIC))
        f2 == readU32File(f1)
    IN  IF \/ CutAtNul(readBytesVal(f, Len(APS_GBA_MAGIC)), 1) # APS_GBA_MAGIC
           \/ f.fileSize < 12 + APS_GBA_RECORD_SIZE
           \/ (f.fileSize - 12) % APS_GBA_RECORD_SIZE # 0
        THEN [null |-> TRUE]
        ELSE APSGBA_readRecords(readU32File(f2),
                 [APSGBAPatch EXCEPT !.sourceSize = U32ToNumber(readU32Val(f1)),
                                     !.targetSize = U32ToNumber(readU32Val(f2))])

(***************************************************************************)
(* PMSR (src/lib/formats/aps-gba.ts, second part).                         *)
(***************************************************************************)
\* 'PMSR'
PMSR_MAGIC == <<80, 77, 83, 82>>
\* 0xa7f5cd7e as <<high 16 bits, low 16 bits>>
PAPER_MARIO_USA10_CRC32 == <<42997, 52606>>
PAPER_MARIO_USA10_FILE_SIZE == 41943040

\* new PMSRPatch()
PMSRPatch == [targetSize |-> 0, records |-> <<>>]

PMSR_addRecord(p, offset, data) ==
    [p EXCEPT !.records = Append(@, [offset |-> offset, data |-> data])]

PMSR_validateSource(romFile) ==
    /\ romFile.fileSize = PAPER_MARIO_USA10_FILE_SIZE
    /\ hashCRC32(romFile, 0, Undefined) = PAPER_MARIO_USA10_CRC32

RECURSIVE PMSR_applyRecords(_, _, _)
PMSR_applyRecords(tempFile, records, i) ==
    IF i > Len(records) THEN tempFile
    ELSE Then(writeBytes(seek(tempFile, records[i].offset), records[i].data),
              LAMBDA g : PMSR_applyRecords(g, records, i + 1))

\* PMSRPatch.apply(romFile, validate): the file returned, or the error thrown
PMSR_apply(p, romFile, validate) ==
    IF validate /\ ~PMSR_validateSource(romFile)
    THEN [error |-> "SourceChecksumMismatch"]
    ELSE PMSR_applyRecords(
             IF p.targetSize = romFile.fileSize THEN clone(romFile)
             ELSE copyTo(romFile, BinFileOfSize(p.targetSize), 0, Undefined),
             p.records, 1)

RECURSIVE PMSR_readRecords(_, _, _, _)
\* for (i = 0; i < nRecords; i++) ...
PMSR_readRecords(file, nRecords, i, p) ==
    IF ~(i < nRecords) THEN p
    ELSE LET offset == U32ToNumber(readU32Val(file))
             f1 == readU32File(file)
             length == U32ToNumber(readU32Val(f1))
             f2 == readU32File(f1)
             q == PMSR_addRecord(p, offset, readBytesVal(f2, length))
         IN  Then(IF offset + length > q.targetSize
                  THEN [q EXCEPT !.targetSize = offset + length] ELSE q,
                  LAMBDA q2 : PMSR_readRecords(readBytesFile(f2, length), nRecords,
                                               i + 1, q2))

\* PMSRPatch.fromFile: the patch, or [null |-> TRUE]
PMSR_fromFile(file) ==
    LET f == seek(file, 0)
        f1 == readBytesFile(f, Len(PMSR_MAGIC))
    IN  IF CutAtNul(readBytesVal(f, Len(PMSR_MAGIC)), 1) # PMSR_MAGIC
        THEN [null |-> TRUE]
        ELSE PMSR_readRecords(readU32File(f1), U32ToNumber(readU32Val(f1)), 0,
                 [PMSRPatch EXCEPT !.targetSize = PAPER_MARIO_USA10_FILE_SIZE])

RECURSIVE PMSR_buildLoop(_, _, _, _)
\* while (!modified.isEOF()) ...: [differences, currentDiff, original, modified];
\* currentDiff is None or [offset, data]
PMSR_buildLoop(original, modified_, differences, currentDiff) ==
    IF isEOF(modified_)
    THEN [differences |-> differences, currentDiff |-> currentDiff,
          original |-> original, modified |-> modified_]
    ELSE LET offset == modified_.offset
             originalByte == readOrZeroVal(original)
             modifiedByte == readU8Val(modified_)
             o2 == readOrZeroFile(original)
             m2 == readU8File(modified_)
         IN  IF originalByte # modifiedByte
             THEN IF currentDiff = None
                  THEN PMSR_buildLoop(o2, m2, differences,
                           [offset |-> offset, data |-> <<modifiedByte>>])
                  ELSE IF offset # currentDiff.offset + Len(currentDiff.data)
                  THEN PMSR_buildLoop(o2, m2, Append(differences, currentDiff),
                           [offset |-> offset, data |-> <<modifiedByte>>])
                  ELSE PMSR_buildLoop(o2, m2, differences,
                           [currentDiff EXCEPT !.data = Append(@, modifiedByte)])
             ELSE IF currentDiff # None
             THEN PMSR_buildLoop(o2, m2, Append(differences, currentDiff), None)
             ELSE PMSR_buildLoop(o2, m2, differences, None)

\* PMSRPatch.buildFromRoms: [patch, original, modified]
PMSR_buildFromRoms(original, modified_) ==
    LET r == PMSR_buildLoop(seek(original, 0), seek(modified_, 0), <<>>, None)
        differences == IF r.currentDiff # None
                       THEN Append(r.differences, r.currentDiff) ELSE r.differences
    IN  [patch |-> [targetSize |-> modified_.fileSize, records |-> differences],
         original |-> r.original, modified |-> r.modified]


RECURSIVE PMSR_exportRecords(_, _, _)
PMSR_exportRecords(tempFile, records, i) ==
    IF i > Len(records) THEN tempFile
    ELSE Then(writeBytes(writeU32(writeU32(tempFile, U32(records[i].offset)),
                                  U32(Len(records[i].data))),
                         records[i].data),
              LAMBDA g : PMSR_exportRecords(g, records, i + 1))

RECURSIVE PMSR_exportSize(_, _)
PMSR_exportSize(records, i) ==
    IF i > Len(records) THEN 8
    ELSE 8 + Len(records[i].data) + PMSR_exportSize(records, i + 1)

\* PMSRPatch.export
PMSR_export(p) ==
    PMSR_exportRecords(
        writeU32(writeBytes(BinFileOfSize(PMSR_exportSize(p.records, 1)), PMSR_MAGIC),
                 U32(Len(p.records))),
        p.records, 1)

(***************************************************************************)
(* VCDIFF (src/plugins/theme.client.ts, lines 23-463)                      *)
(***************************************************************************)
\* the magic, bytes D6 C3 C4
VCDIFF_MAGIC == <<214, 195, 196>>

VCD_NOOP == 0
VCD_ADD == 1
VCD_RUN == 2
VCD_COPY == 3

\* x & (1 << bit) is not 0
VCD_bit(x, bit) == (x \div (2 ^ bit)) % 2 = 1

\* VCDIFFPatch.fromFile / VCDIFFModule.parse: null unless the first three
\* bytes are the magic; the patch keeps the file it was read from
VCDIFF_parse(file) ==
    IF readBytesVal(seek(file, 0), 3) # VCDIFF_MAGIC THEN [null |-> TRUE]
    ELSE [file |-> readBytesFile(seek(file, 0), 3)]

\* VCDIFFParser.readU8 on the file's bytes at a parser offset
VCD_readU8(file, offset) ==
    IF offset >= file.fileSize THEN [value |-> 0, offset |-> offset]
    ELSE [value |-> ToU8(At(file.data, offset)), offset |-> offset + 1]

\* VCDIFFParser.readU32: the four bytes, lowest first, as <<high 16 bits, low
\* 16 bits>>
VCD_readU32(file, offset) ==
    LET b0 == VCD_readU8(file, offset)
        b1 == VCD_readU8(file, b0.offset)
        b2 == VCD_readU8(file, b1.offset)
        b3 == VCD_readU8(file, b2.offset)
    IN  [value |-> <<b3.value * 256 + b2.value, b1.value * 256 + b0.value>>,
         offset |-> b3.offset]

RECURSIVE VCD_read7BitLoop(_, _, _)
\* do { bits = readU8(); num = (num << 7) + (bits & 0x7f) } while (bits & 0x80)
VCD_read7BitLoop(file, offset, num) ==
    LET r == VCD_readU8(file, offset)
        num1 == num * 128 + (r.value % 128)
    IN  IF r.value >= 128 THEN VCD_read7BitLoop(file, r.offset, num1)
        ELSE [value |-> num1, offset |-> r.offset]

VCD_read7BitEncodedInt(file, offset) == VCD_read7BitLoop(file, offset, 0)

\* the lengths of decodeWindowHeader that follow the delta indicator
VCD_decodeWindowLengths(file, indicator, sourceLength, sourcePosition, deltaLength, targetWindowLength, offset) ==
    LET addRunDataLength == VCD_read7BitEncodedInt(file, offset)
        instructionsLength == VCD_read7BitEncodedInt(file, addRunDataLength.offset)
        addressesLength == VCD_read7BitEncodedInt(file, instructionsLength.offset)
        adler32 == IF VCD_bit(indicator, 2)
                   THEN VCD_readU32(file, addressesLength.offset)
                   ELSE [value |-> <<>>, offset |-> addressesLength.offset]
    IN  [indicator |-> indicator,
         sourceLength |-> sourceLength,
         sourcePosition |-> sourcePosition,
         deltaLength |-> deltaLength,
         targetWindowLength |-> targetWindowLength,
         addRunDataLength |-> addRunDataLength.value,
         instructionsLength |-> instructionsLength.value,
         addressesLength |-> addressesLength.value,
         adler32 |-> adler32.value,
         offset |-> adler32.offset]

\* VCDIFFParser.decodeWindowHeader: the header and the parser offset after
\* it, or the error thrown
VCD_decodeWindowHeader(file, offset) ==
    LET indicator == VCD_readU8(file, offset)
        hasSource == VCD_bit(indicator.value, 0) \/ VCD_bit(indicator.value, 1)
        sourceLength == IF hasSource THEN VCD_read7BitEncodedInt(file, indicator.offset)
                        ELSE [value |-> 0, offset |-> indicator.offset]
        sourcePosition == IF hasSource THEN VCD_read7BitEncodedInt(file, sourceLength.offset)
                          ELSE [value |-> 0, offset |-> sourceLength.offset]
        deltaLength == VCD_read7BitEncodedInt(file, sourcePosition.offset)
        targetWindowLength == VCD_read7BitEncodedInt(file, deltaLength.offset)
        deltaIndicator == VCD_readU8(file, targetWindowLength.offset)
    IN  IF deltaIndicator.value # 0 THEN [error |-> "Unimplemented"]
        ELSE VCD_decodeWindowLengths(file, indicator.value, sourceLength.value,
                                     sourcePosition.value, deltaLength.value,
                                     targetWindowLength.value, deltaIndicator.offset)

\* VCD_DEFAULT_CODE_TABLE[index]: the pair of instructions of a code
VCD_DEFAULT_CODE_TABLE(index) ==
    LET empty == [type |-> VCD_NOOP, size |-> 0, mode |-> 0]
    IN  IF index = 0 THEN <<[type |-> VCD_RUN, size |-> 0, mode |-> 0], empty>>
        ELSE IF index <= 18
        THEN <<[type |-> VCD_ADD, size |-> index - 1, mode |-> 0], empty>>
        ELSE IF index <= 162
        THEN LET k == (index - 19) % 16
             IN  <<[type |-> VCD_COPY, size |-> IF k = 0 THEN 0 ELSE k + 3,
                    mode |-> (index - 19) \div 16], empty>>
        ELSE IF index <= 234
        THEN LET j == index - 163
             IN  <<[type |-> VCD_ADD, size |-> ((j % 12) \div 3) + 1, mode |-> 0],
                   [type |-> VCD_COPY, size |-> (j % 3) + 4, mode |-> j \div 12]>>
        ELSE IF index <= 246
        THEN LET j == index - 235
             IN  <<[type |-> VCD_ADD, size |-> (j % 4) + 1, mode |-> 0],
                   [type |-> VCD_COPY, size |-> 4, mode |-> 6 + (j \div 4)]>>
        ELSE <<[type |-> VCD_COPY, size |-> 4, mode |-> index - 247],
               [type |-> VCD_ADD, size |-> 1, mode |-> 0]>>

\* typedArray[index] = v: a store outside the array is ignored
VCD_store(data, index, v) ==
    IF index >= 0 /\ index < Len(data) THEN [data EXCEPT ![index + 1] = ToU8(v)]
    ELSE data

\* the near and same caches of new VCDIFFAddressCache(4, 3) after reset
VCD_nearSize == 4
VCD_sameSize == 3
VCD_cacheReset ==
    [near |-> [i \in 0..(VCD_nearSize - 1) |-> 0],
     same |-> [i \in 0..(VCD_sameSize * 256 - 1) |-> 0],
     nextNearSlot |-> 0]

\* VCDIFFAddressCache.update; a negative address leaves the same cache's
\* elements alone
VCD_cacheUpdate(cache, address) ==
    [near |-> [cache.near EXCEPT ![cache.nextNearSlot] = address],
     same |-> IF address >= 0
              THEN [cache.same EXCEPT ![address % (VCD_sameSize * 256)] = address]
              ELSE cache.same,
     nextNearSlot |-> (cache.nextNearSlot + 1) % VCD_nearSize]

\* VCDIFFAddressCache.decodeAddress: the address, the addresses stream's
\* offset and the cache afterwards
VCD_decodeAddress(file, cache, addresses, here, mode) ==
    LET n == VCD_read7BitEncodedInt(file, addresses)
        b == VCD_readU8(file, addresses)
        address == IF mode = 0 THEN n.value
                   ELSE IF mode = 1 THEN here - n.value
                   ELSE IF mode - 2 < VCD_nearSize THEN cache.near[mode - 2] + n.value
                   ELSE cache.same[(mode - (2 + VCD_nearSize)) * 256 + b.value]
    IN  [address |-> address,
         addresses |-> IF mode - 2 < VCD_nearSize THEN n.offset ELSE b.offset,
         cache |-> VCD_cacheUpdate(cache, address)]

RECURSIVE VCD_copyToFile2(_, _, _, _, _)
\* VCDIFFParser.copyToFile2: target[targetOffset + i] = this._u8array[offset + i]
VCD_copyToFile2(file, offset, data, targetOffset, len) ==
    IF len <= 0 THEN data
    ELSE VCD_copyToFile2(file, offset + 1,
                         VCD_store(data, targetOffset, At(file.data, offset)),
                         targetOffset + 1, len - 1)

RECURSIVE VCD_copyLoop(_, _, _, _, _, _)
\* while (size--) tempFile[to++] = sourceData[absAddr++], sourceData being the
\* ROM or the output itself
VCD_copyLoop(data, fromRom, romFile, to, absAddr, size) ==
    IF size = 0 THEN data
    ELSE VCD_copyLoop(VCD_store(data, to,
                                At(IF fromRom THEN romFile.data ELSE data, absAddr)),
                      fromRom, romFile, to + 1, absAddr + 1, size - 1)

RECURSIVE VCD_runLoop(_, _, _, _)
\* for (j = 0; j < size; j++) tempFile[offset + j] = runByte
VCD_runLoop(data, offset, runByte, size) ==
    IF size <= 0 THEN data
    ELSE VCD_runLoop(VCD_store(data, offset, runByte), offset + 1, runByte, size - 1)

\* the COPY branch of an instruction, its size known
VCD_applyCopy(file, romFile, winHeader, targetWindowPosition, st, mode, size) ==
    LET a == VCD_decodeAddress(file, st.cache, st.addresses,
                               st.addRunDataIndex + winHeader.sourceLength, mode)
        inSource == a.address < winHeader.sourceLength
        fromRom == inSource /\ VCD_bit(winHeader.indicator, 0)
        absAddr == IF inSource THEN winHeader.sourcePosition + a.address
                   ELSE targetWindowPosition + (a.address - winHeader.sourceLength)
    IN  IF inSource /\ ~VCD_bit(winHeader.indicator, 0) /\ ~VCD_bit(winHeader.indicator, 1)
        THEN [error |-> "InvalidWindowIndicator"]
        ELSE [st EXCEPT
                !.data = VCD_copyLoop(st.data, fromRom, romFile,
                                      targetWindowPosition + st.addRunDataIndex,
                                      absAddr, size),
                !.addRunDataIndex = @ + size,
                !.addresses = a.addresses,
                !.cache = a.cache]

\* one instruction of a code: the body of for (i = 0; i < 2; i++).  st holds
\* the output's bytes, the offsets of the three streams, addRunDataIndex and
\* the address cache
VCD_applyInstruction(file, romFile, winHeader, targetWindowPosition, st, instruction) ==
    LET n == IF instruction.size = 0 /\ instruction.type # VCD_NOOP
             THEN VCD_read7BitEncodedInt(file, st.instructions)
             ELSE [value |-> instruction.size, offset |-> st.instructions]
        size == n.value
        st1 == [st EXCEPT !.instructions = n.offset]
    IN  IF instruction.type = VCD_NOOP THEN st1
        ELSE IF instruction.type = VCD_ADD
        THEN [st1 EXCEPT
                !.data = VCD_copyToFile2(file, st.addRunData, st.data,
                                         st.addRunDataIndex + targetWindowPosition, size),
                !.addRunData = @ + size,
                !.addRunDataIndex = @ + size]
        ELSE IF instruction.type = VCD_COPY
        THEN VCD_applyCopy(file, romFile, winHeader, targetWindowPosition, st1,
                           instruction.mode, size)
        ELSE LET runByte == VCD_readU8(file, st.addRunData)
             IN  [st1 EXCEPT
                    !.data = VCD_runLoop(st.data, targetWindowPosition + st.addRunDataIndex,
                                         runByte.value, size),
                    !.addRunData = runByte.offset,
                    !.addRunDataIndex = @ + size]

RECURSIVE VCD_instructionLoop(_, _, _, _, _, _)
\* while (instructionsStream.offset < addressesStreamEndOffset): one code, its
\* two instructions.  Once the instructions stream is at the end of the file
\* and still below the end offset, readU8 returns 0 without advancing, code 0
\* is a RUN of size 0 and the loop never ends.
VCD_instructionLoop(file, romFile, winHeader, targetWindowPosition, st, addressesStreamEndOffset) ==
    IF "error" \in DOMAIN st THEN st
    ELSE IF st.instructions >= addressesStreamEndOffset THEN st
    ELSE IF st.instructions >= file.fileSize THEN [error |-> "NoTermination"]
    ELSE LET instructionIndex == VCD_readU8(file, st.instructions)
             code == VCD_DEFAULT_CODE_TABLE(instructionIndex.value)
         IN  Then(VCD_applyInstruction(file, romFile, winHeader, targetWindowPosition,
                                       [st EXCEPT !.instructions = instructionIndex.offset],
                                       code[1]),
                  LAMBDA st1 :
                      IF "error" \in DOMAIN st1 THEN st1
                      ELSE Then(VCD_applyInstruction(file, romFile, winHeader,
                                                     targetWindowPosition, st1, code[2]),
                                LAMBDA st2 :
                                    VCD_instructionLoop(file, romFile, winHeader,
                                                        targetWindowPosition, st2,
                                                        addressesStreamEndOffset)))

RECURSIVE VCDIFF_adler32Loop(_, _, _, _, _)
\* a = (a + file._u8array[offset + i]) % 65521; b = (b + a) % 65521, and the
\* result (b << 16) | a as <<high 16 bits, low 16 bits>>; a byte outside the
\* array makes a and b NaN and the result 0
VCDIFF_adler32Loop(data, offset, length, a, b) ==
    IF length <= 0 THEN <<b, a>>
    ELSE IF At(data, offset) = Undefined THEN <<0, 0>>
    ELSE LET a1 == (a + At(data, offset)) % 65521
         IN  VCDIFF_adler32Loop(data, offset + 1, length - 1, a1, (b + a1) % 65521)

\* VCDIFFPatch.adler32, compared as written
VCDIFF_adler32(data, offset, length) == VCDIFF_adler32Loop(data, offset, length, 1, 0)

\* if (x) on a 32-bit value | undefined, undefined being <<>>
VCD_truthy(w) == w # <<>> /\ w # <<0, 0>>

RECURSIVE VCD_sizeLoop(_, _, _)
\* the first pass: newFileSize += winHeader.targetWindowLength for each window
VCD_sizeLoop(file, offset, newFileSize) ==
    IF offset >= file.fileSize THEN [size |-> newFileSize]
    ELSE LET h == VCD_decodeWindowHeader(file, offset)
         IN  IF "error" \in DOMAIN h THEN h
             ELSE VCD_sizeLoop(file,
                               h.offset + h.addRunDataLength + h.addressesLength
                                   + h.instructionsLength,
                               newFileSize + h.targetWindowLength)

\* one window: its instructions run, then the Adler-32 test; the output's
\* bytes afterwards, or the error thrown
VCD_applyWindow(file, romFile, validate, h, data, targetWindowPosition) ==
    LET instructions == h.offset + h.addRunDataLength
        addresses == instructions + h.instructionsLength
    IN  Then(VCD_instructionLoop(file, romFile, h, targetWindowPosition,
                                 [data |-> data, addRunData |-> h.offset,
                                  instructions |-> instructions,
                                  addresses |-> addresses, addRunDataIndex |-> 0,
                                  cache |-> VCD_cacheReset],
                                 addresses),
             LAMBDA st :
                 IF "error" \in DOMAIN st THEN st
                 ELSE IF /\ validate
                         /\ VCD_truthy(h.adler32)
                         /\ h.adler32 # VCDIFF_adler32(st.data, targetWindowPosition,
                                                       h.targetWindowLength)
                 THEN [error |-> "TargetChecksumMismatch"]
                 ELSE [data |-> st.data])

RECURSIVE VCD_windowLoop(_, _, _, _, _, _)
\* the second pass: while (!parser.isEOF()) over the windows
VCD_windowLoop(file, romFile, validate, offset, tempFile, targetWindowPosition) ==
    IF offset >= file.fileSize THEN tempFile
    ELSE LET h == VCD_decodeWindowHeader(file, offset)
         IN  IF "error" \in DOMAIN h THEN h
             ELSE Then(VCD_applyWindow(file, romFile, validate, h, tempFile.data,
                                       targetWindowPosition),
                       LAMBDA w :
                           IF "error" \in DOMAIN w THEN w
                           ELSE VCD_windowLoop(file, romFile, validate,
                                               h.offset + h.addRunDataLength
                                                   + h.addressesLength
                                                   + h.instructionsLength,
                                               [tempFile EXCEPT !.data = w.data],
                                               targetWindowPosition + h.targetWindowLength))

\* the file header: the parser offset after it, or the error thrown
VCD_header(file) ==
    LET headerIndicator == VCD_readU8(file, 3)
        secondaryDecompressorId ==
            IF VCD_bit(headerIndicator.value, 0) THEN VCD_readU8(file, headerIndicator.offset)
            ELSE [value |-> 0, offset |-> headerIndicator.offset]
        codeTableDataLength ==
            IF VCD_bit(headerIndicator.value, 1)
            THEN VCD_read7BitEncodedInt(file, secondaryDecompressorId.offset)
            ELSE [value |-> 0, offset |-> secondaryDecompressorId.offset]
        appDataLength ==
            IF VCD_bit(headerIndicator.value, 2)
            THEN VCD_read7BitEncodedInt(file, codeTableDataLength.offset)
            ELSE [value |-> 0, offset |-> codeTableDataLength.offset]
    IN  IF secondaryDecompressorId.value # 0 THEN [error |-> "Unimplemented"]
        ELSE IF codeTableDataLength.value # 0 THEN [error |-> "Unimplemented"]
        ELSE [offset |-> appDataLength.offset + appDataLength.value]

\* VCDIFFPatch.apply(romFile, validate): the output file, or the error thrown
VCDIFF_apply(p, romFile, validate) ==
    LET header == VCD_header(p.file)
    IN  IF "error" \in DOMAIN header THEN header
        ELSE LET newFileSize == VCD_sizeLoop(p.file, header.offset, 0)
             IN  IF "error" \in DOMAIN newFileSize THEN newFileSize
                 ELSE VCD_windowLoop(p.file, romFile, validate, header.offset,
                                     BinFileOfSize(newFileSize.size), 0)

(***************************************************************************)
(* RomPatcher (the dispatcher): parsePatchFile.                            *)
(***************************************************************************)
\* the registry, in insertion order; BPS, APS (N64), PPF and RUP are commented
\* out in the source
formatModules ==
    << [name |-> "IPS", magic |-> IPS_MAGIC],
       [name |-> "UPS", magic |-> UPS_MAGIC],
       [name |-> "APS-GBA", magic |-> APS_GBA_MAGIC],
       [name |-> "PMSR", magic |-> PMSR_MAGIC],
       [name |-> "VCDIFF", magic |-> VCDIFF_MAGIC] >>

\* String.prototype.startsWith
StartsWith(str, prefix) ==
    Len(str) >= Len(prefix) /\ SubSeq(str, 1, Len(prefix)) = prefix

IsError(r) == "error" \in DOMAIN r
IsNull(r) == "null" \in DOMAIN r

\* a patch object tagged with the class it is an instance of
PatchOf(codec, p) == [codec |-> codec, patch |-> p]

\* module.parse(file): a tagged patch, [null |-> TRUE], or the error thrown.
\* IPSModule.parse turns every exception of IPS.fromFile into null.
Module_parse(name, file) ==
    LET r == CASE name = "IPS" -> IPS_fromFile(file)
               [] name = "UPS" -> UPS_fromFile(file)
               [] name = "APS-GBA" -> APSGBA_fromFile(file)
               [] name = "PMSR" -> PMSR_fromFile(file)
               [] name = "VCDIFF" -> VCDIFF_parse(file)
    IN  IF IsNull(r) THEN r
        ELSE IF IsError(r) THEN (IF name = "IPS" THEN [null |-> TRUE] ELSE r)
        ELSE PatchOf(name, r)

RECURSIVE RomPatcher_parseLoop(_, _, _, _)
\* for (const [magic, module] of this.formatModules) ...: [result, tried], tried
\* the names of the modules whose parse was called.  No two registered magics
\* are prefixes of one header, so at most one parse is called and the state a
\* parse leaves the file in is not carried to a later one.
RomPatcher_parseLoop(file, header, i, tried) ==
    IF i > Len(formatModules)
    THEN [result |-> [error |-> "UnsupportedFormat"], tried |-> tried]
    ELSE IF StartsWith(header, formatModules[i].magic)
    THEN LET r == Module_parse(formatModules[i].name, file)
             t == Append(tried, formatModules[i].name)
         IN  IF IsError(r) THEN [result |-> [error |-> "InvalidPatchFile"], tried |-> t]
             ELSE IF IsNull(r) THEN RomPatcher_parseLoop(file, header, i + 1, t)
             ELSE [result |-> r, tried |-> t]
    ELSE RomPatcher_parseLoop(file, header, i + 1, tried)

\* RomPatcher.parsePatchFile: [result, tried]
RomPatcher_parsePatchFile(file) ==
    LET f == seek([file EXCEPT !.littleEndian = FALSE], 0)
    IN  IF f.fileSize < 5
        THEN [result |-> [error |-> "InvalidPatchFile"], tried |-> <<>>]
        ELSE RomPatcher_parseLoop(f, readBytesVal(f, 6), 1, <<>>)


(***************************************************************************)
(* SpecParse: RomPatcher.parsePatchFile on a patch buffer.  patchFile is   *)
(* the buffer, patch says which magic it starts with and whether it is a   *)
(* well-formed file of that format, parsed is the result.                  *)
(***************************************************************************)
\* 'APS10' and 'NINJA2'
APS_N64_MAGIC == <<65, 80, 83, 49, 48>>
RUP_MAGIC == <<78, 73, 78, 74, 65, 50>>

\* an APS (N64) file as APSPatch.export lays it out: magic, header type 0,
\* encoding 0, 'no description' padded to 50 bytes, output size 0, and one
\* simple record at offset 0 holding data (no record when data is empty)
APS_N64_file(data) ==
    APS_N64_MAGIC \o <<0, 0>>
    \o PadEnd(<<110, 111, 32, 100, 101, 115, 99, 114, 105, 112, 116, 105, 111, 110>>, 50, 0)
    \o <<0, 0, 0, 0>>
    \o (IF data = <<>> THEN <<>> ELSE <<0, 0, 0, 0, Len(data)>> \o data)

\* a RUP file as RUPPatch.export lays it out for a patch without files: the
\* magic, a zeroed header up to offset 0x800, and the END command
RUP_emptyFile == RUP_MAGIC \o Zeros(2048 - Len(RUP_MAGIC)) \o <<0>>

\* longest ROM the patch buffers are built from
MaxParseRomLen == 2
ParseRoms == {BinFileOfBytes(b) : b \in SeqsUpTo({0, 1}, MaxParseRomLen)}
\* most data bytes in the record of an APS (N64) buffer
MaxAPSN64Data == 6

\* the file export() writes for a patch with one simple record: the magic,
\* the record and the EOF terminator
IPSExportedFile ==
    getBytes(IPS_export(addSimpleRecord(IPSPatch, 1, <<9, 9>>)))

\* IPS buffers with a truncated body: the exported file cut before its end,
\* a simple record that declares two bytes and holds one, and a complete
\* record with no EOF terminator after it
IPSTruncatedFiles ==
    { BinFileOfBytes(SubSeq(IPSExportedFile, 1, n)) : n \in 5..(Len(IPSExportedFile) - 1) }
    \cup { BinFileOfBytes(IPS_MAGIC \o <<0, 0, 1, 0, 2, 9>>),
           BinFileOfBytes(IPS_MAGIC \o <<0, 0, 1, 0, 1, 9>>) }

ParseInput(magic, file, wellFormed) ==
    [magic |-> magic, file |-> file, wellFormed |-> wellFormed]

\* exported patches of every format, and buffers that are no patch
ParseInputs ==
    {ParseInput("PATCH", IPS_export(IPS_create(s, m)), TRUE) : s, m \in ParseRoms}
    \cup {ParseInput("UPS1", UPS_export(UPS_buildFromRoms(s, m).patch), TRUE) :
              s, m \in ParseRoms}
    \cup {ParseInput("BPS1", BPS_export(BPS_create(s, m)), TRUE) : s, m \in ParseRoms}
    \cup {ParseInput("PPF", PPF_export(PPF_create(s, m).patch), TRUE) : s, m \in ParseRoms}
    \cup {ParseInput("APS1", APSGBA_export(p), TRUE) :
              p \in {q \in {APSGBA_buildFromRoms(s, m).patch : s, m \in ParseRoms} :
                         Len(q.apsRecords) > 0}}
    \cup {ParseInput("PMSR", PMSR_export(PMSR_buildFromRoms(s, m).patch), TRUE) :
              s, m \in ParseRoms}
    \cup {ParseInput("APS10", BinFileOfBytes(APS_N64_file(d)), TRUE) :
              d \in {[i \in 1..n |-> 1] : n \in 0..MaxAPSN64Data}}
    \cup {ParseInput("NINJA2", BinFileOfBytes(RUP_emptyFile), TRUE)}
    \cup {ParseInput("VCDIFF", BinFileOfBytes(VCDIFF_MAGIC \o <<0>> \o b), TRUE) :
              b \in {<<0>>, <<0, 0>>}}
    \cup {ParseInput("none", BinFileOfBytes(b), TRUE) :
              b \in {<<0, 0, 0, 0, 0>>, <<80, 65, 84, 67, 0>>, <<85, 80, 83, 50, 0, 0>>,
                     <<65, 80, 83, 0, 49>>}}
    \cup {ParseInput("UPS1", BinFileOfBytes(UPS_MAGIC), FALSE),
          ParseInput("none", BinFileOfBytes(<<>>), FALSE),
          ParseInput("PATCH", BinFileOfBytes(IPS_MAGIC), FALSE)}
    \cup {ParseInput("PATCH", f, FALSE) : f \in IPSTruncatedFiles}

InitParse ==
    /\ pc = "init"
    /\ \E in \in ParseInputs :
          /\ patchFile = in.file
          /\ patch = [magic |-> in.magic, wellFormed |-> in.wellFormed]
    /\ source = None
    /\ modified = None
    /\ parsed = None
    /\ target = None

\* parsed = RomPatcher.parsePatchFile(patchFile); the buffer is left rewound,
\* big-endian
ParsePatchFile ==
    /\ pc = "init"
    /\ pc' = "parsed"
    /\ parsed' = RomPatcher_parsePatchFile(patchFile)
    /\ patchFile' = seek([patchFile EXCEPT !.littleEndian = FALSE], 0)
    /\ UNCHANGED <<source, modified, patch, target>>

NextParse == ParsePatchFile

SpecParse == InitParse /\ [][NextParse]_vars

\* the codec that owns each magic
CodecOfMagic(magic) ==
    CASE magic = "PATCH" -> "IPS"
      [] magic = "UPS1" -> "UPS"
      [] magic = "BPS1" -> "BPS"
      [] magic = "APS10" -> "APS-N64"
      [] magic = "APS1" -> "APS-GBA"
      [] magic = "PPF" -> "PPF"
      [] magic = "NINJA2" -> "RUP"
      [] magic = "PMSR" -> "PMSR"
      [] magic = "VCDIFF" -> "VCDIFF"

\* C13: dispatcher format selection: for a well-formed patch buffer whose first
\* bytes are one of the nine magics, parsePatchFile returns a patch handled by
\* that magic's codec; for a buffer of at least 5 bytes starting with none of
\* them it fails with UnsupportedFormat.
C13_FormatSelection ==
    (pc = "parsed" /\ patch.wellFormed) =>
        IF patch.magic = "none"
        THEN parsed.result = [error |-> "UnsupportedFormat"]
        ELSE /\ ~IsError(parsed.result)
             /\ parsed.result.codec = CodecOfMagic(patch.magic)

\* C14: magic-prefix conflict: a buffer whose first five bytes are APS10 is
\* never matched by, or handed to, the APS-GBA codec.
C14_APS10NotHandedToAPSGBA ==
    (pc = "parsed" /\ StartsWith(patchFile.data, APS_N64_MAGIC)) =>
        \A i \in 1..Len(parsed.tried) : parsed.tried[i] # "APS-GBA"


(***************************************************************************)
(* RomPatcher.createPatch.  Strings are sequences of character codes.      *)
(***************************************************************************)
\* enum PatchFormat: the tag's value, a lower-case string
PatchFormat ==
    [IPS |-> <<105, 112, 115>>,
     UPS |-> <<117, 112, 115>>,
     BPS |-> <<98, 112, 115>>,
     APS_N64 |-> <<97, 112, 115, 95, 110, 54, 52>>,
     APS_GBA |-> <<97, 112, 115, 95, 103, 98, 97>>,
     RUP |-> <<114, 117, 112>>,
     PPF |-> <<112, 112, 102>>,
     PMSR |-> <<112, 109, 115, 114>>,
     VCDIFF |-> <<118, 99, 100, 105, 102, 102>>,
     EBP |-> <<101, 98, 112>>]

\* String.prototype.toLowerCase on one character code below 256: A-Z and the
\* Latin-1 capitals (all of 0xC0..0xDE but the multiplication sign 0xD7)
LowerCode(c) ==
    IF (c >= 65 /\ c <= 90) \/ (c >= 192 /\ c <= 222 /\ c # 215) THEN c + 32 ELSE c

toLowerCase(str) == [i \in 1..Len(str) |-> LowerCode(str[i])]

\* module.build(original, modified, metadata): [result, original, modified],
\* result a tagged patch or the error thrown.  VCDIFF is a decoder only.
Module_build(name, original, modified_) ==
    CASE name = "IPS" ->
            [result |-> PatchOf(name, IPS_create(original, modified_)),
             original |-> original, modified |-> modified_]
      [] name = "UPS" ->
            LET r == UPS_buildFromRoms(original, modified_)
            IN  [result |-> PatchOf(name, r.patch),
                 original |-> r.original, modified |-> r.modified]
      [] name = "APS-GBA" ->
            LET r == APSGBA_buildFromRoms(original, modified_)
            IN  [result |-> PatchOf(name, r.patch),
                 original |-> r.original, modified |-> r.modified]
      [] name = "PMSR" ->
            LET r == PMSR_buildFromRoms(original, modified_)
            IN  [result |-> PatchOf(name, r.patch),
                 original |-> r.original, modified |-> r.modified]
      [] name = "VCDIFF" ->
            [result |-> [error |-> "UnsupportedOperation"],
             original |-> original, modified |-> modified_]

RECURSIVE RomPatcher_findModule(_, _)
\* for (const module of this.formatModules.values()) if (module.magic.
\* toLowerCase() === format.toLowerCase()) ...: the module's index, or 0
RomPatcher_findModule(format, i) ==
    IF i > Len(formatModules) THEN 0
    ELSE IF toLowerCase(formatModules[i].magic) = toLowerCase(format) THEN i
    ELSE RomPatcher_findModule(format, i + 1)

\* RomPatcher.createPatch: [result, original, modified]
RomPatcher_createPatch(originalFile, modifiedFile, format) ==
    LET i == RomPatcher_findModule(format, 1)
    IN  IF i = 0
        THEN [result |-> [error |-> "UnsupportedFormat"],
              original |-> originalFile, modified |-> modifiedFile]
        ELSE Module_build(formatModules[i].name, originalFile, modifiedFile)

(***************************************************************************)
(* SpecCreate: RomPatcher.createPatch(source, modified, format).  target   *)
(* holds the format tag asked for, patch the result.                       *)
(***************************************************************************)
PatchFormatTags ==
    {"IPS", "UPS", "BPS", "APS_N64", "APS_GBA", "RUP", "PPF", "PMSR", "VCDIFF", "EBP"}

InitCreate ==
    /\ pc = "init"
    /\ source \in ParseRoms
    /\ modified \in ParseRoms
    /\ \E tag \in PatchFormatTags : target = [format |-> tag]
    /\ patch = None
    /\ patchFile = None
    /\ parsed = None

\* patch = RomPatcher.createPatch(source, modified, PatchFormat[tag])
CreatePatch ==
    /\ pc = "init"
    /\ pc' = "created"
    /\ LET r == RomPatcher_createPatch(source, modified, PatchFormat[target.format])
       IN  patch' = r.result /\ source' = r.original /\ modified' = r.modified
    /\ UNCHANGED <<patchFile, parsed, target>>

NextCreate == CreatePatch

SpecCreate == InitCreate /\ [][NextCreate]_vars

\* the codec each format tag names
CodecOfFormat(tag) ==
    CASE tag = "IPS" -> "IPS"
      [] tag = "UPS" -> "UPS"
      [] tag = "BPS" -> "BPS"
      [] tag = "APS_N64" -> "APS-N64"
      [] tag = "APS_GBA" -> "APS-GBA"
      [] tag = "RUP" -> "RUP"
      [] tag = "PPF" -> "PPF"
      [] tag = "PMSR" -> "PMSR"

\* the patch the codec's own builder makes of the two ROMs (for the codecs
\* whose builder is modelled)
BuildOfCodec(codec, original, modified_) ==
    CASE codec = "IPS" -> IPS_create(original, modified_)
      [] codec = "UPS" -> UPS_buildFromRoms(original, modified_).patch
      [] codec = "BPS" -> BPS_create(original, modified_)
      [] codec = "APS-GBA" -> APSGBA_buildFromRoms(original, modified_).patch
      [] codec = "PPF" -> PPF_create(original, modified_).patch
      [] codec = "PMSR" -> PMSR_buildFromRoms(original, modified_).patch

\* C15: dispatcher create: for every format tag F in {IPS, UPS, BPS, APS_N64,
\* APS_GBA, PPF, RUP, PMSR}, createPatch(source, modified, F) selects codec F
\* and returns the patch that codec's build makes; it does not fail with
\* UnsupportedFormat.
C15_CreateSelectsCodec ==
    (pc = "created" /\ target.format \notin {"VCDIFF", "EBP"}) =>
        /\ ~IsError(patch)
        /\ patch.codec = CodecOfFormat(target.format)
        /\ patch.codec \notin {"APS-N64", "RUP"} =>
               patch.patch = BuildOfCodec(patch.codec, source, modified)


(***************************************************************************)
(* RomPatcher.applyPatch and its header handling.  A ROM handed to the     *)
(* dispatcher is a BinFile record with one more field, fileName, a string  *)
(* (sequence of character codes).                                          *)
(***************************************************************************)
\* RomPatcher.HEADERS_INFO with the sizes scaled down so that ROMs of a few
\* bytes have a header and a whole number of units after it.  In the source:
\* iNES 16 / 1024, fwNES 16 / 65500, LNX 64 / 1024, SNES copier 512 / 262144.
\* As in the source every header is shorter than its romSizeMultiple.
HEADERS_INFO ==
    << [extensions |-> << <<110, 101, 115>> >>, size |-> 2, romSizeMultiple |-> 4],
       [extensions |-> << <<102, 100, 115>> >>, size |-> 2, romSizeMultiple |-> 5],
       [extensions |-> << <<108, 110, 120>> >>, size |-> 3, romSizeMultiple |-> 4],
       [extensions |-> << <<115, 102, 99>>, <<115, 109, 99>>, <<115, 119, 99>>,
                          <<102, 105, 103>> >>,
        size |-> 4, romSizeMultiple |-> 6] >>

RECURSIVE LastIndexOf(_, _, _)
\* str.lastIndexOf(c), searching down from position i (0-based); -1 when absent
LastIndexOf(str, c, i) ==
    IF i < 0 THEN 0 - 1
    ELSE IF str[i + 1] = c THEN i
    ELSE LastIndexOf(str, c, i - 1)

\* BinFile.getExtension
getExtension(f) ==
    LET lastDot == LastIndexOf(f.fileName, 46, Len(f.fileName) - 1)
    IN  IF lastDot # 0 - 1
        THEN toLowerCase(SubSeq(f.fileName, lastDot + 2, Len(f.fileName)))
        ELSE <<>>

\* Array.prototype.includes
Includes(arr, x) == \E i \in 1..Len(arr) : arr[i] = x

RECURSIVE RomPatcher_canRomGetHeaderLoop(_, _, _)
RomPatcher_canRomGetHeaderLoop(romFile, extension, i) ==
    IF i > Len(HEADERS_INFO) THEN None
    ELSE IF /\ Includes(HEADERS_INFO[i].extensions, extension)
            /\ romFile.fileSize % HEADERS_INFO[i].romSizeMultiple = 0
    THEN HEADERS_INFO[i]
    ELSE RomPatcher_canRomGetHeaderLoop(romFile, extension, i + 1)

\* RomPatcher.canRomGetHeader: the HeaderInfo, or None for null
RomPatcher_canRomGetHeader(romFile) ==
    RomPatcher_canRomGetHeaderLoop(romFile, getExtension(romFile), 1)

RECURSIVE RomPatcher_isRomHeaderedLoop(_, _, _)
RomPatcher_isRomHeaderedLoop(romFile, extension, i) ==
    IF i > Len(HEADERS_INFO) THEN None
    ELSE IF /\ Includes(HEADERS_INFO[i].extensions, extension)
            /\ (romFile.fileSize - HEADERS_INFO[i].size)
                   % HEADERS_INFO[i].romSizeMultiple = 0
    THEN HEADERS_INFO[i]
    ELSE RomPatcher_isRomHeaderedLoop(romFile, extension, i + 1)

\* isRomHeadered with the test of canRomGetHeader
RomPatcher_isRomHeadered_NoHeaderSize(romFile) ==
    RomPatcher_canRomGetHeaderLoop(romFile, getExtension(romFile), 1)

\* RomPatcher.isRomHeadered: the HeaderInfo, or None for null
RomPatcher_isRomHeadered(romFile) ==
    RomPatcher_isRomHeaderedLoop(romFile, getExtension(romFile), 1)

\* new BinFile(bytes) with a file name
NamedBinFile(bytes, fileName) ==
    [data |-> bytes, fileSize |-> Len(bytes), offset |-> 0,
     littleEndian |-> FALSE, stack |-> <<>>, fileName |-> fileName]

\* RomPatcher.removeHeader, called when isRomHeadered found headerInfo:
\* [header, rom]
RomPatcher_removeHeader(romFile) ==
    LET headerInfo == RomPatcher_isRomHeadered(romFile)
        bytes == getBytes(romFile)
    IN  [header |-> NamedBinFile(Slice(bytes, 0, headerInfo.size),
                                 romFile.fileName \o <<46, 104, 101, 97, 100, 101, 114>>),
         rom |-> NamedBinFile(Slice(bytes, headerInfo.size, Len(bytes)),
                              romFile.fileName)]

\* RomPatcher.addFakeHeader, called when canRomGetHeader found headerInfo
RomPatcher_addFakeHeader(romFile) ==
    LET headerInfo == RomPatcher_canRomGetHeader(romFile)
        romWithHeader == BinFileOfSize(headerInfo.size + romFile.fileSize)
        g == writeBytes(writeBytes(romWithHeader, Zeros(headerInfo.size)),
                        getBytes(romFile))
    IN  [data |-> g.data, fileSize |-> g.fileSize, offset |-> g.offset,
         littleEndian |-> g.littleEndian, stack |-> g.stack,
         fileName |-> romFile.fileName]

\* patch.validateSource(romFile, skipHeaderSize) of a tagged patch:
\* [result, romFile]
Patch_validateSource(tp, romFile, skipHeaderSize) ==
    CASE tp.codec = "IPS" -> [result |-> TRUE, romFile |-> romFile]
      [] tp.codec = "UPS" ->
            [result |-> UPS_validateSource(tp.patch, romFile, skipHeaderSize),
             romFile |-> romFile]
      [] tp.codec = "APS-GBA" ->
            LET v == APSGBA_validateSource(tp.patch, romFile, skipHeaderSize)
            IN  [result |-> v.result, romFile |-> v.sourceFile]
      [] tp.codec = "PMSR" ->
            [result |-> PMSR_validateSource(romFile), romFile |-> romFile]

\* patch.apply(romFile) of a tagged patch: [result, romFile]
Patch_apply(tp, romFile) ==
    CASE tp.codec = "IPS" -> [result |-> IPS_apply(tp.patch, romFile), romFile |-> romFile]
      [] tp.codec = "UPS" -> UPS_apply(tp.patch, romFile)
      [] tp.codec = "APS-GBA" -> APSGBA_apply(tp.patch, romFile)
      [] tp.codec = "PMSR" ->
            [result |-> PMSR_apply(tp.patch, romFile, TRUE), romFile |-> romFile]
      [] tp.codec = "BPS" ->
            [result |-> BPS_apply(tp.patch, romFile, TRUE), romFile |-> romFile]

\* validateRom that accepts every ROM
RomPatcher_validateRom_AlwaysTrue(romFile, tp, skipHeaderSize) ==
    [result |-> TRUE, romFile |-> romFile]

\* RomPatcher.validateRom: [result, romFile]
RomPatcher_validateRom(romFile, tp, skipHeaderSize) ==
    Patch_validateSource(tp, romFile, IF skipHeaderSize < 0 THEN 0 ELSE skipHeaderSize)

\* applyPatch, header reinsertion: the file returned for what patch.apply
\* returned, or the error patch.apply threw
RomPatcher_reinsertHeader(romFile, headered, fakeHeaderSize, patchedRom) ==
    IF IsError(patchedRom) THEN patchedRom
    ELSE IF headered
    THEN LET extractedHeader == RomPatcher_removeHeader(romFile).header
         IN  writeBytes(
                 writeBytes(BinFileOfSize(extractedHeader.fileSize + patchedRom.fileSize),
                            getBytes(extractedHeader)),
                 getBytes(patchedRom))
    ELSE IF fakeHeaderSize > 0
    THEN BinFileOfBytes(Slice(getBytes(patchedRom), fakeHeaderSize,
                              Len(getBytes(patchedRom))))
    ELSE patchedRom

\* applyPatch from its validation on.  workingIsRomFile tells that the working
\* ROM is the caller's file itself; v is [result, romFile], the outcome of the
\* validation and the working ROM after it.
RomPatcher_applyWorkingRom(romFile, tp, headered, fakeHeaderSize, workingIsRomFile, v) ==
    IF ~v.result
    THEN [result |-> [error |-> "PatchValidationError"], applied |-> FALSE,
          headered |-> headered, fakeHeaderSize |-> fakeHeaderSize,
          romFile |-> IF workingIsRomFile THEN v.romFile ELSE romFile]
    ELSE Then(Patch_apply(tp, v.romFile),
              LAMBDA a :
                  [result |-> RomPatcher_reinsertHeader(romFile, headered,
                                                        fakeHeaderSize, a.result),
                   applied |-> TRUE, headered |-> headered,
                   fakeHeaderSize |-> fakeHeaderSize,
                   romFile |-> IF workingIsRomFile THEN a.romFile ELSE romFile])

\* RomPatcher.applyPatch: [result, applied, headered, fakeHeaderSize, romFile];
\* result is the file returned or the error thrown, applied tells whether
\* patch.apply was called, romFile is the caller's file afterwards
RomPatcher_applyPatch(romFile, tp, options) ==
    LET headered == options.removeHeader /\ RomPatcher_isRomHeadered(romFile) # None
        canGet == /\ ~options.removeHeader
                  /\ options.addHeader
                  /\ RomPatcher_canRomGetHeader(romFile) # None
    IN  Then(IF headered THEN RomPatcher_removeHeader(romFile).rom
             ELSE IF canGet THEN RomPatcher_addFakeHeader(romFile)
             ELSE romFile,
             LAMBDA workingRom :
                 RomPatcher_applyWorkingRom(romFile, tp, headered,
                     IF canGet THEN RomPatcher_canRomGetHeader(romFile).size ELSE 0,
                     ~(headered \/ canGet),
                     IF options.requireValidation
                     THEN RomPatcher_validateRom(workingRom, tp, 0)
                     ELSE [result |-> TRUE, romFile |-> workingRom]))

(***************************************************************************)
(* SpecApply: RomPatcher.applyPatch on a named ROM, a patch of one of the  *)
(* registered codecs and a set of options.                                 *)
(***************************************************************************)
MaxApplyRomLen == 7

\* file names: a.nes, a.NES, a.fds, a.lnx, a.smc, a.bin, nes
ApplyFileNames ==
    { <<97, 46, 110, 101, 115>>, <<97, 46, 78, 69, 83>>, <<97, 46, 102, 100, 115>>,
      <<97, 46, 108, 110, 120>>, <<97, 46, 115, 109, 99>>, <<97, 46, 98, 105, 110>>,
      <<110, 101, 115>> }

\* ROMs whose byte at position i is i + 1, so that a misplaced byte shows
ApplyRoms ==
    { NamedBinFile(SubSeq(<<1, 2, 3, 4, 5, 6, 7, 8>>, 1, n), name) :
          n \in 0..MaxApplyRomLen, name \in ApplyFileNames }

\* contents a working ROM can have: a ROM as given, a ROM after its header,
\* a ROM behind a fake header
ApplyPatchSources ==
    { <<>>, <<1, 2, 3, 4>>, <<1, 2, 3, 4, 5, 6>>, <<3, 4, 5, 6>>, <<3, 4, 5, 6, 7>>,
      <<0, 0, 1, 2, 3, 4>>, <<0, 0, 0, 1, 2, 3, 4>> }

\* the modified ROM a patch is built for: the first byte replaced
ApplyModified(w) == IF w = <<>> THEN <<9>> ELSE <<9>> \o Tail(w)

ApplyPatches ==
    { PatchOf("IPS", addSimpleRecord(IPSPatch, 1, <<9>>)),
      PatchOf("IPS", addSimpleRecord(IPSPatch, 0, <<9, 9>>)),
      PatchOf("PMSR", PMSR_addRecord(PMSRPatch, 0, <<9>>)) }
    \cup { PatchOf("UPS", UPS_buildFromRoms(BinFileOfBytes(w),
                                            BinFileOfBytes(ApplyModified(w))).patch) :
               w \in ApplyPatchSources }
    \cup { PatchOf("APS-GBA", APSGBA_buildFromRoms(BinFileOfBytes(w),
                                                   BinFileOfBytes(ApplyModified(w))).patch) :
               w \in ApplyPatchSources }

ApplyOptions ==
    [requireValidation : BOOLEAN, removeHeader : BOOLEAN, addHeader : BOOLEAN]

InitApply ==
    /\ pc = "init"
    /\ source \in ApplyRoms
    /\ modified = None
    /\ patch \in ApplyPatches
    /\ patchFile = None
    /\ parsed = None
    /\ target = None

\* RomPatcher.applyPatch(source, patch, options); parsed records the options
\* and what the call did, target the file returned or the error thrown
ApplyPatch ==
    /\ pc = "init"
    /\ pc' = "applied"
    /\ \E options \in ApplyOptions :
           LET r == RomPatcher_applyPatch(source, patch, options)
           IN  /\ target' = r.result
               /\ source' = r.romFile
               /\ parsed' = [options |-> options, applied |-> r.applied,
                             headered |-> r.headered,
                             fakeHeaderSize |-> r.fakeHeaderSize]
    /\ UNCHANGED <<modified, patch, patchFile>>

NextApply == ApplyPatch

SpecApply == InitApply /\ [][NextApply]_vars

\* the entry of HEADERS_INFO that lists the extension of the file name, or None
HeaderEntryOf(f) ==
    IF \E i \in 1..Len(HEADERS_INFO) : Includes(HEADERS_INFO[i].extensions, getExtension(f))
    THEN HEADERS_INFO[CHOOSE i \in 1..Len(HEADERS_INFO) :
                          Includes(HEADERS_INFO[i].extensions, getExtension(f))]
    ELSE None

\* the ROM as it was given to applyPatch: every ROM of InitApply has its cursor at 0
SourceAsGiven == seek(source, 0)

\* C16: with removeHeader set, when the extension is in the header table with
\* header size h and stride s and (size - h) mod s = 0, the codec is applied
\* to the bytes after the first h and the output is the original first h bytes
\* followed by the codec's output; otherwise the codec is applied to the ROM
\* as given and its output is returned unchanged.  (A ROM rejected by the
\* validation of requireValidation is not the subject of this claim.)
C16_RemoveHeader ==
    (pc = "applied" /\ parsed.options.removeHeader
        /\ target # [error |-> "PatchValidationError"]) =>
        LET e == HeaderEntryOf(source)
            bytes == getBytes(source)
            headered == /\ e # None
                        /\ (source.fileSize - e.size) % e.romSizeMultiple = 0
            out == IF headered
                   THEN Patch_apply(patch, NamedBinFile(Slice(bytes, e.size, Len(bytes)),
                                                        source.fileName)).result
                   ELSE Patch_apply(patch, SourceAsGiven).result
        IN  IF IsError(out) THEN target = out
            ELSE /\ ~IsError(target)
                 /\ getBytes(target) = (IF headered THEN Slice(bytes, 0, e.size) ELSE <<>>)
                                           \o getBytes(out)

\* a headered ROM longer than its header went through with removeHeader and
\* the codec produced a file
C16_Witness ==
    /\ pc = "applied"
    /\ parsed.options.removeHeader
    /\ parsed.headered
    /\ source.fileSize > HeaderEntryOf(source).size
    /\ ~IsError(target)
    /\ getBytes(target) # getBytes(source)


\* C17: with addHeader set and removeHeader not set, when the extension is in
\* the header table with header size h and stride s and size mod s = 0, the
\* codec is applied to h zero bytes followed by the source and the output is
\* the codec's output without its first h bytes; otherwise no header is added
\* or stripped.  (A ROM rejected by the validation of requireValidation is
\* not the subject of this claim.)
C17_AddHeader ==
    (pc = "applied" /\ parsed.options.addHeader /\ ~parsed.options.removeHeader
        /\ target # [error |-> "PatchValidationError"]) =>
        LET e == HeaderEntryOf(source)
            bytes == getBytes(source)
            canGet == e # None /\ source.fileSize % e.romSizeMultiple = 0
            out == IF canGet
                   THEN Patch_apply(patch, NamedBinFile(Zeros(e.size) \o bytes,
                                                        source.fileName)).result
                   ELSE Patch_apply(patch, SourceAsGiven).result
        IN  IF IsError(out) THEN target = out
            ELSE /\ ~IsError(target)
                 /\ getBytes(target) =
                        (IF canGet
                         THEN Slice(getBytes(out), e.size, Len(getBytes(out)))
                         ELSE getBytes(out))


\* the ROM applyPatch works on after its header handling, computed from the
\* header table
WorkingRomOf(f, options) ==
    LET e == HeaderEntryOf(f)
        bytes == getBytes(f)
    IN  IF /\ options.removeHeader
           /\ e # None
           /\ (f.fileSize - e.size) % e.romSizeMultiple = 0
        THEN NamedBinFile(Slice(bytes, e.size, Len(bytes)), f.fileName)
        ELSE IF /\ ~options.removeHeader
                /\ options.addHeader
                /\ e # None
                /\ f.fileSize % e.romSizeMultiple = 0
        THEN NamedBinFile(Zeros(e.size) \o bytes, f.fileName)
        ELSE f

MaxCursorRomLen == 3
CursorRomBytes == {1, 2}

\* source buffers with their cursor at c
CursorSources ==
    { seek(BinFileOfBytes(b), c) :
          b \in SeqsUpTo(CursorRomBytes, MaxCursorRomLen), c \in 0..MaxCursorRomLen }

InitCursor ==
    /\ pc = "init"
    /\ source \in {f \in CursorSources : f.offset <= f.fileSize}
    /\ modified \in {BinFileOfBytes(b) : b \in SeqsUpTo(CursorRomBytes, MaxCursorRomLen)}
    /\ patch = None
    /\ patchFile = None
    /\ parsed = None
    /\ target = None

\* patch = UPS.buildFromRoms(new BinFile(source bytes), modified)
CursorBuildUPS ==
    /\ pc = "init"
    /\ pc' = "built"
    /\ patch' = PatchOf("UPS", UPS_buildFromRoms(BinFileOfBytes(getBytes(source)),
                                                 modified).patch)
    /\ UNCHANGED <<source, modified, patchFile, parsed, target>>

\* patch = BPS.create(new BinFile(source bytes), modified)
CursorBuildBPS ==
    /\ pc = "init"
    /\ pc' = "built"
    /\ patch' = PatchOf("BPS", BPS_create(BinFileOfBytes(getBytes(source)), modified))
    /\ UNCHANGED <<source, modified, patchFile, parsed, target>>

\* a BPS patch as other encoders write it for an unchanged ROM: one SourceRead
\* action over the whole source, both checksums that of the source
CursorBuildBPSSourceRead ==
    /\ pc = "init"
    /\ source.fileSize > 0
    /\ pc' = "built"
    /\ patch' = PatchOf("BPS",
                   [BPSPatch EXCEPT
                       !.sourceSize = source.fileSize,
                       !.targetSize = source.fileSize,
                       !.actions = <<[type |-> BPS_ACTION_SOURCE_READ,
                                      length |-> source.fileSize]>>,
                       !.sourceChecksum = hashCRC32(source, 0, Undefined),
                       !.targetChecksum = hashCRC32(source, 0, Undefined)])
    /\ UNCHANGED <<source, modified, patchFile, parsed, target>>

\* patch = APSGBA.buildFromRoms(new BinFile(source bytes), modified)
CursorBuildAPSGBA ==
    /\ pc = "init"
    /\ pc' = "built"
    /\ patch' = PatchOf("APS-GBA",
                        APSGBA_buildFromRoms(BinFileOfBytes(getBytes(source)),
                                             modified).patch)
    /\ UNCHANGED <<source, modified, patchFile, parsed, target>>

\* target = patch.apply(source), the source's cursor being where Init put it
CursorApply ==
    /\ pc = "built"
    /\ pc' = "applied"
    /\ LET r == Patch_apply(patch, source)
       IN  target' = r.result /\ source' = r.romFile
    /\ UNCHANGED <<modified, patch, patchFile, parsed>>

NextCursor ==
    \/ CursorBuildUPS
    \/ CursorBuildBPS
    \/ CursorBuildBPSSourceRead
    \/ CursorBuildAPSGBA
    \/ CursorApply

SpecCursor == InitCursor /\ [][NextCursor]_vars

\* C19: for UPS, BPS and APS-GBA, apply gives the same result (the same output
\* bytes, or the same error) whatever the source buffer's cursor is when apply
\* is called: the result equals that of apply on a buffer with the same bytes
\* and its cursor at 0.
C19_ApplyCursorIndependent ==
    pc = "applied" =>
        LET atStart == Patch_apply(patch, BinFileOfBytes(getBytes(source))).result
        IN  IF IsError(atStart) THEN target = atStart
            ELSE ~IsError(target) /\ getBytes(target) = getBytes(atStart)


(***************************************************************************)
(* SpecBPSTruncated: BPS.fromFile on buffers that begin with BPS1: the     *)
(* prefixes of an exported patch file, and BPS1 followed by a few bytes.   *)
(***************************************************************************)
MaxBPSTail == 4
\* bytes with and without the 0x80 bit that ends a variable-length integer
BPSTailBytes == {0, 1, 128, 133}

\* the file BPS.create([1, 2], [1, 3]).export() writes
BPSExportedFile ==
    getBytes(BPS_export(BPS_create(BinFileOfBytes(<<1, 2>>), BinFileOfBytes(<<1, 3>>))))

BPSTruncatedFiles ==
    { BinFileOfBytes(SubSeq(BPSExportedFile, 1, n)) : n \in 4..Len(BPSExportedFile) }
    \cup { BinFileOfBytes(SubSeq(BPSExportedFile, 1, 4) \o b) :
               b \in SeqsUpTo(BPSTailBytes, MaxBPSTail) }

InitBPSTruncated ==
    /\ pc = "init"
    /\ source = None
    /\ modified = None
    /\ patch = None
    /\ patchFile \in BPSTruncatedFiles
    /\ parsed = None
    /\ target = None

\* parsed = BPS.fromFile(patchFile): the patch, the error, or [loops |-> TRUE]
\* when the call never returns
BPSParseTruncated ==
    /\ pc = "init"
    /\ pc' = "parsed"
    /\ parsed' = BPS_fromFile(patchFile)
    /\ UNCHANGED <<source, modified, patch, patchFile, target>>

NextBPSTruncated == BPSParseTruncated

SpecBPSTruncated == InitBPSTruncated /\ [][NextBPSTruncated]_vars

\* C20: BPS.fromFile terminates on every buffer that begins with BPS1,
\* truncated buffers included: it returns a patch or an error and never loops
\* forever.
C20_BPSParseTotal ==
    pc = "parsed" => parsed # [loops |-> TRUE]

\* C21: a buffer that starts with the PATCH magic and whose body is truncated
\* (no EOF terminator before the end, or a simple record whose declared length
\* runs past the end) fails in parsePatchFile with InvalidPatchFileError, not
\* with UnsupportedFormatError and not with a patch.
C21_TruncatedIPSIsInvalidPatchFile ==
    (pc = "parsed" /\ patch.magic = "PATCH" /\ ~patch.wellFormed) =>
        parsed.result = [error |-> "InvalidPatchFile"]


(***************************************************************************)
(* SpecIPSApply: IPSPatch.apply of a patch built record by record, with    *)
(* record offsets inside, at and beyond the end of the source.             *)
(***************************************************************************)
MaxIPSApplyRomLen == 3
MaxIPSApplyRecords == 2
IPSApplyRoms == {BinFileOfBytes(b) : b \in SeqsUpTo({1, 2}, MaxIPSApplyRomLen)}
IPSApplyOffsets == {0, 1, 3, 5}
IPSApplyPayloads == {<<7>>, <<8, 9>>}
IPSApplyRunLengths == {3}
IPSApplyRunBytes == {6}
\* no truncation, or a truncation size (0 is written by IPS.create for an
\* empty modified ROM)
IPSApplyTruncations == {JSFalse, 0, 1, 2, 10}

InitIPSApply ==
    /\ pc = "new"
    /\ source \in IPSApplyRoms
    /\ modified = None
    /\ patch = IPSPatch
    /\ patchFile = None
    /\ parsed = None
    /\ target = None

\* patch.addSimpleRecord(o, d)
IPSApplyAddSimpleRecord ==
    /\ pc = "new"
    /\ Len(patch.records) < MaxIPSApplyRecords
    /\ \E o \in IPSApplyOffsets, d \in IPSApplyPayloads :
          patch' = addSimpleRecord(patch, o, d)
    /\ UNCHANGED <<pc, source, modified, patchFile, parsed, target>>

\* patch.addRLERecord(o, n, b)
IPSApplyAddRLERecord ==
    /\ pc = "new"
    /\ Len(patch.records) < MaxIPSApplyRecords
    /\ \E o \in IPSApplyOffsets, n \in IPSApplyRunLengths, b \in IPSApplyRunBytes :
          patch' = addRLERecord(patch, o, n, b)
    /\ UNCHANGED <<pc, source, modified, patchFile, parsed, target>>

\* patch.truncate = n; target = patch.apply(source)
IPSApplyBuilt ==
    /\ pc = "new"
    /\ pc' = "applied"
    /\ \E n \in IPSApplyTruncations :
          /\ patch' = [patch EXCEPT !.truncate = n]
          /\ target' = IPS_apply(patch', source)
    /\ UNCHANGED <<source, modified, patchFile, parsed>>

NextIPSApply ==
    \/ IPSApplyAddSimpleRecord
    \/ IPSApplyAddRLERecord
    \/ IPSApplyBuilt

SpecIPSApply == InitIPSApply /\ [][NextIPSApply]_vars

\* the payload of a record: its data, or its byte repeated length times
IPSRecordPayload(record) ==
    IF record.type = IPS_RECORD_RLE
    THEN [i \in 1..record.length |-> record.byte]
    ELSE record.data

\* the records that write position i (0-based)
IPSRecordsAt(records, i) ==
    {j \in 1..Len(records) :
        records[j].offset <= i /\ i < records[j].offset + records[j].length}

\* C22: after apply without truncation the output size is the larger of the
\* source size and the greatest offset + length of a record, and every
\* position a record covers holds the payload byte of the last record that
\* covers it, also for records whose offset lies beyond the end of the source.
C22_IPSApplyPlacesRecords ==
    (pc = "applied" /\ ~Truthy(patch.truncate)) =>
        /\ target.fileSize = IPS_maxOffset(patch.records, 1, source.fileSize)
        /\ \A i \in 0..(target.fileSize - 1) :
              IPSRecordsAt(patch.records, i) # {} =>
                  LET j == CHOOSE k \in IPSRecordsAt(patch.records, i) :
                               \A l \in IPSRecordsAt(patch.records, i) : l <= k
                  IN  getBytes(target)[i + 1]
                          = IPSRecordPayload(patch.records[j])[i - patch.records[j].offset + 1]


(***************************************************************************)
(* SpecUPSOversize: a UPS patch is built from the first bytes of a buffer  *)
(* and a modified ROM, and applied to the whole buffer, which is longer    *)
(* than the source size the patch declares.  parsed holds that size.       *)
(***************************************************************************)
MaxOversizeRomLen == 3
OversizeRoms == {BinFileOfBytes(b) : b \in SeqsUpTo({1, 2}, MaxOversizeRomLen)}

InitUPSOversize ==
    /\ pc = "init"
    /\ source \in {f \in OversizeRoms : f.fileSize > 0}
    /\ modified \in OversizeRoms
    /\ patch = UPSPatch
    /\ patchFile = None
    /\ \E n \in 0..(MaxOversizeRomLen - 1) : parsed = [sizeInput |-> n]
    /\ parsed.sizeInput < source.fileSize
    /\ target = None

\* patch = UPS.buildFromRoms(new BinFile(first sizeInput bytes of source), modified)
UPSOversizeBuild ==
    /\ pc = "init"
    /\ pc' = "created"
    /\ patch' = UPS_buildFromRoms(
                    BinFileOfBytes(SubSeq(getBytes(source), 1, parsed.sizeInput)),
                    modified).patch
    /\ UNCHANGED <<source, modified, patchFile, parsed, target>>

\* target = patch.apply(source)
UPSOversizeApply ==
    /\ pc = "created"
    /\ pc' = "applied"
    /\ LET r == UPS_apply(patch, source)
       IN  target' = r.result /\ source' = r.romFile
    /\ UNCHANGED <<modified, patch, patchFile, parsed>>

NextUPSOversize ==
    \/ UPSOversizeBuild
    \/ UPSOversizeApply

SpecUPSOversize == InitUPSOversize /\ [][NextUPSOversize]_vars

\* C23: when the source is longer than the patch's sizeInput and the CRC32 of
\* its first sizeInput bytes equals checksumInput, the source check passes and
\* apply proceeds, copying the source bytes from sizeInput on to the output.
C23_UPSOversizedSourceApplies ==
    (/\ pc = "applied"
     /\ source.fileSize > patch.sizeInput
     /\ hashCRC32(source, 0, patch.sizeInput) = patch.checksumInput) =>
        /\ target # [error |-> "SourceChecksumMismatch"]
        /\ ~IsError(target) =>
              \A i \in (patch.sizeInput + 1)..source.fileSize :
                  i <= target.fileSize /\ getBytes(target)[i] = getBytes(source)[i]


(***************************************************************************)
(* SpecBPSRun: the action loop of BPSPatch.apply, one iteration per step.  *)
(* source is the ROM (cursor at 0), patch a patch whose actions are valid  *)
(* BPS (lengths add up to targetSize, reads inside the source, copies from *)
(* inside the source or the output produced so far), target the output     *)
(* file, parsed the loop's variables: the index i of the next action and   *)
(* the two copy cursors.                                                   *)
(***************************************************************************)
\* one iteration of the loop of BPSPatch.apply:
\* [tempFile, sourceRelativeOffset, targetRelativeOffset]
BPS_applyAction(action, romFile, tempFile, sourceRelativeOffset, targetRelativeOffset) ==
    IF action.type = BPS_ACTION_SOURCE_READ
    THEN [tempFile |-> skip(copyTo(romFile, tempFile, tempFile.offset, action.length),
                            action.length),
          sourceRelativeOffset |-> sourceRelativeOffset,
          targetRelativeOffset |-> targetRelativeOffset]
    ELSE IF action.type = BPS_ACTION_TARGET_READ
    THEN [tempFile |-> writeBytes(tempFile, Uint8ArrayFrom(action.bytes)),
          sourceRelativeOffset |-> sourceRelativeOffset,
          targetRelativeOffset |-> targetRelativeOffset]
    ELSE IF action.type = BPS_ACTION_SOURCE_COPY
    THEN [tempFile |-> BPS_copyBytes(tempFile, [self |-> FALSE, data |-> romFile.data],
                           sourceRelativeOffset + action.relativeOffset, action.length),
          sourceRelativeOffset |-> sourceRelativeOffset + action.relativeOffset
                                       + action.length,
          targetRelativeOffset |-> targetRelativeOffset]
    ELSE [tempFile |-> BPS_copyBytes(tempFile, [self |-> TRUE],
                           targetRelativeOffset + action.relativeOffset, action.length),
          sourceRelativeOffset |-> sourceRelativeOffset,
          targetRelativeOffset |-> targetRelativeOffset + action.relativeOffset
                                       + action.length]

MaxBPSRunRomLen == 3
MaxBPSRunActions == 3
BPSRunRoms == {BinFileOfBytes(b) : b \in SeqsUpTo({1, 2}, MaxBPSRunRomLen)}
BPSRunActions ==
    {[type |-> BPS_ACTION_TARGET_READ, length |-> 1, bytes |-> <<7>>],
     [type |-> BPS_ACTION_TARGET_READ, length |-> 2, bytes |-> <<8, 9>>],
     [type |-> BPS_ACTION_SOURCE_READ, length |-> 1],
     [type |-> BPS_ACTION_SOURCE_READ, length |-> 2],
     [type |-> BPS_ACTION_SOURCE_COPY, length |-> 1, relativeOffset |-> 0],
     [type |-> BPS_ACTION_SOURCE_COPY, length |-> 1, relativeOffset |-> 1],
     [type |-> BPS_ACTION_TARGET_COPY, length |-> 3, relativeOffset |-> 0],
     [type |-> BPS_ACTION_TARGET_COPY, length |-> 3, relativeOffset |-> 1],
     [type |-> BPS_ACTION_TARGET_COPY, length |-> 3, relativeOffset |-> -1]}

RECURSIVE BPSRunLength(_, _)
\* the size of the target the actions from i on describe
BPSRunLength(actions, i) ==
    IF i > Len(actions) THEN 0 ELSE actions[i].length + BPSRunLength(actions, i + 1)

RECURSIVE BPSRunValid(_, _, _, _, _, _)
\* the format's rules for the actions from i on, o being the output offset and
\* s, t the source and target copy cursors before action i
BPSRunValid(actions, i, sourceSize, o, s, t) ==
    IF i > Len(actions) THEN TRUE
    ELSE LET a == actions[i]
         IN  IF a.type = BPS_ACTION_SOURCE_READ
             THEN /\ o + a.length <= sourceSize
                  /\ BPSRunValid(actions, i + 1, sourceSize, o + a.length, s, t)
             ELSE IF a.type = BPS_ACTION_TARGET_READ
             THEN BPSRunValid(actions, i + 1, sourceSize, o + a.length, s, t)
             ELSE IF a.type = BPS_ACTION_SOURCE_COPY
             THEN /\ s + a.relativeOffset >= 0
                  /\ s + a.relativeOffset + a.length <= sourceSize
                  /\ BPSRunValid(actions, i + 1, sourceSize, o + a.length,
                                 s + a.relativeOffset + a.length, t)
             ELSE /\ t + a.relativeOffset >= 0
                  /\ t + a.relativeOffset < o
                  /\ BPSRunValid(actions, i + 1, sourceSize, o + a.length, s,
                                 t + a.relativeOffset + a.length)

InitBPSRun ==
    /\ pc = "run"
    /\ source \in BPSRunRoms
    /\ modified = None
    /\ \E actions \in SeqsUpTo(BPSRunActions, MaxBPSRunActions) :
          /\ BPSRunValid(actions, 1, source.fileSize, 0, 0, 0)
          /\ patch = [BPSPatch EXCEPT !.sourceSize = source.fileSize,
                                      !.targetSize = BPSRunLength(actions, 1),
                                      !.actions = actions]
    /\ patchFile = None
    /\ parsed = [i |-> 1, sourceRelativeOffset |-> 0, targetRelativeOffset |-> 0]
    /\ target = BinFileOfSize(patch.targetSize)

\* the iteration for actions[parsed.i], an action of the given type
BPSRunStep(type) ==
    /\ pc = "run"
    /\ parsed.i <= Len(patch.actions)
    /\ patch.actions[parsed.i].type = type
    /\ LET r == BPS_applyAction(patch.actions[parsed.i], source, target,
                                parsed.sourceRelativeOffset, parsed.targetRelativeOffset)
       IN  /\ target' = r.tempFile
           /\ parsed' = [i |-> parsed.i + 1,
                         sourceRelativeOffset |-> r.sourceRelativeOffset,
                         targetRelativeOffset |-> r.targetRelativeOffset]
    /\ UNCHANGED <<pc, source, modified, patch, patchFile>>

BPSRunSourceRead == BPSRunStep(BPS_ACTION_SOURCE_READ)
BPSRunTargetRead == BPSRunStep(BPS_ACTION_TARGET_READ)
BPSRunSourceCopy == BPSRunStep(BPS_ACTION_SOURCE_COPY)
BPSRunTargetCopy == BPSRunStep(BPS_ACTION_TARGET_COPY)

NextBPSRun ==
    \/ BPSRunSourceRead
    \/ BPSRunTargetRead
    \/ BPSRunSourceCopy
    \/ BPSRunTargetCopy

SpecBPSRun == InitBPSRun /\ [][NextBPSRun]_vars

\* the loop of apply, run as steps, computes what BPS_applyActions computes
BPSRunAgrees ==
    (pc = "run" /\ parsed.i > Len(patch.actions)) =>
        target = BPS_applyActions(patch.actions, 1, source,
                                  BinFileOfSize(patch.targetSize), 0, 0)

\* C24: a SourceRead(length) action executed when the output offset is o
\* writes source[o .. o + length) into output[o .. o + length) and advances
\* the output offset by exactly length, wherever it occurs in the actions.
C24_BPSSourceRead ==
    [][BPSRunSourceRead =>
          LET o == target.offset
              length == patch.actions[parsed.i].length
          IN  /\ target'.offset = o + length
              /\ \A k \in 0..(length - 1) :
                    At(target'.data, o + k) = At(source.data, o + k)]_vars

\* C25: a TargetCopy of length N whose copy cursor, after the signed delta is
\* added, is p with p below the output offset o copies byte by byte: afterwards
\* output[o + i] = output[p + i] for all i < N, also where p + i >= o; with
\* p = o - 1 the N bytes all equal the last byte produced before; and the copy
\* cursor ends at p + N.
C25_BPSTargetCopyOverlap ==
    [][BPSRunTargetCopy =>
          LET o == target.offset
              N == patch.actions[parsed.i].length
              p == parsed.targetRelativeOffset + patch.actions[parsed.i].relativeOffset
          IN  (p >= 0 /\ p < o) =>
                  /\ \A i \in 0..(N - 1) :
                        At(target'.data, o + i) = At(target'.data, p + i)
                  /\ p = o - 1 =>
                        \A i \in 0..(N - 1) :
                            At(target'.data, o + i) = At(target.data, o - 1)
                  /\ target'.offset = o + N
                  /\ parsed'.targetRelativeOffset = p + N]_vars

\* a TargetCopy of three bytes has just run with its copy cursor one below the
\* output offset, and the output ends with four equal bytes that are not the
\* zeros the output file starts with
C25_Witness ==
    /\ pc = "run"
    /\ parsed.i > 1
    /\ patch.actions[parsed.i - 1].type = BPS_ACTION_TARGET_COPY
    /\ parsed.targetRelativeOffset = target.offset - 1
    /\ target.offset >= 4
    /\ At(target.data, target.offset - 4) # 0
    /\ \A k \in 1..3 :
          At(target.data, target.offset - k) = At(target.data, target.offset - 4)

(***************************************************************************)
(* SpecVCDIFF: VCDIFF files of one or two windows, each an ADD, a RUN or a *)
(* COPY from the source, with or without a declared Adler-32, applied with *)
(* and without validation.                                                 *)
(***************************************************************************)
MaxVCDRomLen == 2
MaxVCDWindows == 2
VCDRoms == {BinFileOfBytes(b) : b \in SeqsUpTo({1, 2}, MaxVCDRomLen)}

RECURSIVE Adler32Of(_, _, _)
\* Adler-32 of a byte sequence, a = 1 and b = 0 at the start, modulus 65521,
\* as <<b, a>>: the high and the low 16 bits of the 32-bit value
Adler32Of(bytes, a, b) ==
    IF bytes = <<>> THEN <<b, a>>
    ELSE LET a1 == (a + Head(bytes)) % 65521
         IN  Adler32Of(Tail(bytes), a1, (b + a1) % 65521)

\* the instruction programs drawn for a window over a source of n bytes, each
\* with the bytes it produces
VCDPrograms(rom) ==
    {[kind |-> "ADD", addRunData |-> d, instructions |-> <<Len(d) + 1>>,
      addresses |-> <<>>, produced |-> d] : d \in {<<7>>, <<7, 8>>}}
    \cup {[kind |-> "RUN", addRunData |-> <<9>>, instructions |-> <<0, 3>>,
           addresses |-> <<>>, produced |-> <<9, 9, 9>>]}
    \cup {[kind |-> "COPY", addRunData |-> <<>>, instructions |-> <<19, 1>>,
           addresses |-> <<a>>, produced |-> <<rom.data[a + 1]>>] :
             a \in 0..(rom.fileSize - 1)}

\* a window: a program, and the Adler-32 it declares: none (<<>>), the Adler-32 of
\* the bytes it produces, that value with its lowest bit flipped, or zero
VCDWindows(rom) ==
    {[program |-> g, declared |-> <<>>] : g \in VCDPrograms(rom)}
    \cup UNION {{[program |-> g, declared |-> w] :
                    w \in LET right == Adler32Of(g.produced, 1, 0)
                          IN  {right,
                               <<right[1], IF right[2] % 2 = 0 THEN right[2] + 1
                                           ELSE right[2] - 1>>,
                               <<0, 0>>}} :
                 g \in VCDPrograms(rom)}

\* the bytes of a window: indicator, the source segment of a COPY window, the
\* lengths, the Adler-32 (lowest byte first, as decodeWindowHeader reads it)
\* and the three streams
VCDWindowBytes(w, rom) ==
    LET g == w.program
        fromSource == g.kind = "COPY"
        adler == IF w.declared = <<>> THEN <<>>
                 ELSE <<w.declared[2] % 256, w.declared[2] \div 256,
                        w.declared[1] % 256, w.declared[1] \div 256>>
        lengths == <<Len(g.produced), 0, Len(g.addRunData), Len(g.instructions),
                     Len(g.addresses)>>
        body == g.addRunData \o g.instructions \o g.addresses
    IN  <<(IF fromSource THEN 1 ELSE 0) + (IF w.declared = <<>> THEN 0 ELSE 4)>>
        \o (IF fromSource THEN <<rom.fileSize, 0>> ELSE <<>>)
        \o <<Len(lengths) + Len(adler) + Len(body)>>
        \o lengths \o adler \o body

RECURSIVE VCDWindowsBytes(_, _, _)
VCDWindowsBytes(windows, i, rom) ==
    IF i > Len(windows) THEN <<>>
    ELSE VCDWindowBytes(windows[i], rom) \o VCDWindowsBytes(windows, i + 1, rom)

\* the file: the magic, a version byte 0 when versionByte is set, a header
\* indicator 0 and the windows
VCDFileBytes(versionByte, windows, rom) ==
    VCDIFF_MAGIC \o (IF versionByte THEN <<0>> ELSE <<>>) \o <<0>>
    \o VCDWindowsBytes(windows, 1, rom)

InitVCDIFF ==
    /\ pc = "new"
    /\ source \in VCDRoms
    /\ \E versionByte \in BOOLEAN :
          patch = [versionByte |-> versionByte, windows |-> <<>>]
    /\ modified = None
    /\ patchFile = None
    /\ parsed = None
    /\ target = None

\* one more window is appended to the file being written
VCDAddWindow ==
    /\ pc = "new"
    /\ Len(patch.windows) < MaxVCDWindows
    /\ \E w \in VCDWindows(source) :
          patch' = [patch EXCEPT !.windows = Append(@, w)]
    /\ UNCHANGED <<pc, source, modified, patchFile, parsed, target>>

\* VCDIFFModule.parse(file).apply(source, validate)
VCDApply ==
    /\ pc = "new"
    /\ Len(patch.windows) > 0
    /\ \E validate \in BOOLEAN :
          LET file == BinFileOfBytes(VCDFileBytes(patch.versionByte, patch.windows, source))
              p == VCDIFF_parse(file)
          IN  /\ patchFile' = file
              /\ parsed' = [validate |-> validate]
              /\ target' = VCDIFF_apply(p, source, validate)
    /\ pc' = "applied"
    /\ UNCHANGED <<source, modified, patch>>

NextVCDIFF == VCDAddWindow \/ VCDApply

SpecVCDIFF == InitVCDIFF /\ [][NextVCDIFF]_vars

\* every window that declares an Adler-32 declares the Adler-32 of the bytes
\* it produces
VCDDeclaredRight ==
    \A i \in 1..Len(patch.windows) :
        patch.windows[i].declared # <<>> =>
            patch.windows[i].declared = Adler32Of(patch.windows[i].program.produced, 1, 0)

RECURSIVE VCDProduced(_, _)
VCDProduced(windows, i) ==
    IF i > Len(windows) THEN <<>>
    ELSE windows[i].program.produced \o VCDProduced(windows, i + 1)

\* without a version byte and without validation, apply produces the bytes
\* of the windows' programs
VCDApplyProduces ==
    (pc = "applied" /\ ~patch.versionByte /\ ~parsed.validate) =>
        /\ "data" \in DOMAIN target
        /\ target.data = VCDProduced(patch.windows, 1)

\* C26: with validation on, apply succeeds only if every window that declares
\* an Adler-32 (its indicator has the ADLER32 bit set) declares the Adler-32 of
\* the bytes produced for it, whatever the declared value, zero included;
\* otherwise apply fails with a target checksum mismatch.
C26_VCDIFFAdler32 ==
    (pc = "applied" /\ parsed.validate) =>
        /\ IsFile(target) => VCDDeclaredRight
        /\ ~VCDDeclaredRight => target = [error |-> "TargetChecksumMismatch"]

(***************************************************************************)
(* RUPPatch.apply (src/lib/formats/ups.ts, lines 344-417) and the hash it  *)
(* compares.                                                               *)
(***************************************************************************)
RECURSIVE simpleHashLoop(_, _, _)
\* hash = ((hash << 5) - hash + data[i]) & 0xffffffff over the file's bytes.
\* For the files considered here the value stays below 2^31, where the 32-bit
\* mask changes nothing.
simpleHashLoop(data, i, hash) ==
    IF i > Len(data) THEN hash
    ELSE simpleHashLoop(data, i + 1, hash * 32 - hash + data[i])

\* BinFile.hashMD5(): _simpleHash('md5'), the hexadecimal digits of
\* Math.abs(hash) padded to 32, kept as the number they denote
hashMD5(f) ==
    LET hash == simpleHashLoop(getBytes(f), 1, 0)
    IN  IF hash < 0 THEN 0 - hash ELSE hash

RECURSIVE RUP_findValidFile(_, _, _)
\* for (const file of this.files) if (file.sourceMD5 === md5String ||
\* file.targetMD5 === md5String): the file's index, or 0
RUP_findValidFile(files, i, md5String) ==
    IF i > Len(files) THEN 0
    ELSE IF files[i].sourceMD5 = md5String \/ files[i].targetMD5 = md5String THEN i
    ELSE RUP_findValidFile(files, i + 1, md5String)

RECURSIVE RUP_applyXor(_, _, _, _)
\* for (const xorByte of record.xor): [romFile, tempFile]
RUP_applyXor(romFile, tempFile, xor, k) ==
    IF k > Len(xor) THEN [romFile |-> romFile, tempFile |-> tempFile]
    ELSE LET originalByte == IF isEOF(romFile) THEN 0 ELSE readU8Val(romFile)
         IN  Then(writeU8(tempFile, BitXor(originalByte, xor[k])),
                  LAMBDA g : RUP_applyXor(IF isEOF(romFile) THEN romFile
                                          ELSE readU8File(romFile),
                                          g, xor, k + 1))

RECURSIVE RUP_applyRecords(_, _, _, _)
\* for (const record of patch.records): [romFile, tempFile]
RUP_applyRecords(romFile, tempFile, records, i) ==
    IF i > Len(records) THEN [romFile |-> romFile, tempFile |-> tempFile]
    ELSE Then(RUP_applyXor(seek(romFile, records[i].offset),
                           seek(tempFile, records[i].offset), records[i].xor, 1),
              LAMBDA r : RUP_applyRecords(r.romFile, r.tempFile, records, i + 1))

\* overflowData.map(byte => byte ^ 0xff)
RUP_unmask(overflowData) ==
    [k \in 1..Len(overflowData) |-> BitXor(overflowData[k], 255)]

\* the overflow step of apply
RUP_applyOverflow(file, undo, tempFile) ==
    IF file.overflowMode = "A" /\ ~undo
    THEN writeBytes(seek(tempFile, file.sourceFileSize), RUP_unmask(file.overflowData))
    ELSE IF file.overflowMode = "M" /\ undo
    THEN writeBytes(seek(tempFile, file.targetFileSize), RUP_unmask(file.overflowData))
    ELSE tempFile

\* apply once the file entry and the direction are known
RUP_applyFile(file, undo, romFile, validate) ==
    LET tempFile == copyTo(romFile,
                           BinFileOfSize(IF ~undo THEN file.targetFileSize
                                         ELSE file.sourceFileSize),
                           0, Undefined)
    IN  Then(RUP_applyRecords(romFile, tempFile, file.records, 1),
             LAMBDA r :
                 Then(RUP_applyOverflow(file, undo, r.tempFile),
                      LAMBDA out :
                          IF /\ validate
                             /\ hashMD5(out) # (IF ~undo THEN file.targetMD5
                                                ELSE file.sourceMD5)
                          THEN [result |-> [error |-> "TargetChecksumMismatch"],
                                romFile |-> r.romFile]
                          ELSE [result |-> out, romFile |-> r.romFile]))

\* RUPPatch.apply(romFile, validate): [result, romFile], result the output
\* file or the error thrown
RUP_apply(p, romFile, validate) ==
    LET md5String == hashMD5(romFile)
        i == IF validate THEN RUP_findValidFile(p.files, 1, md5String) ELSE 1
    IN  IF i = 0
        THEN [result |-> [error |-> "SourceChecksumMismatch"], romFile |-> romFile]
        ELSE RUP_applyFile(p.files[i], p.files[i].targetMD5 = md5String,
                           romFile, validate)

(***************************************************************************)
(* SpecRUPApply: a RUP patch from a source to a modified ROM, applied to   *)
(* the source (forward) and to the modified ROM (reverse).                 *)
(***************************************************************************)
MaxRUPRomLen == 3
RUPRoms == {BinFileOfBytes(b) : b \in SeqsUpTo({1, 2}, MaxRUPRomLen)}

RECURSIVE RUPXorRecords(_, _, _)
\* one XOR record for every byte that differs below both sizes
RUPXorRecords(a, b, i) ==
    IF i >= Min(Len(a), Len(b)) THEN <<>>
    ELSE (IF a[i + 1] = b[i + 1] THEN <<>>
          ELSE <<[offset |-> i, xor |-> <<BitXor(a[i + 1], b[i + 1])>>]>>)
         \o RUPXorRecords(a, b, i + 1)

\* the file entry of a patch from original to changed: the sizes, the two
\* hashes, the overflow (Append: the bytes of changed from the source size on;
\* Minify: the bytes of original from the target size on; each XOR 0xff) and
\* the XOR records
RUPFileOf(original, changed) ==
    LET a == getBytes(original)
        b == getBytes(changed)
        longer == IF Len(a) < Len(b) THEN b ELSE a
        overflow == Slice(longer, Min(Len(a), Len(b)), Len(longer))
    IN  [sourceFileSize |-> Len(a),
         targetFileSize |-> Len(b),
         sourceMD5 |-> hashMD5(original),
         targetMD5 |-> hashMD5(changed),
         overflowMode |-> IF Len(a) < Len(b) THEN "A"
                          ELSE IF Len(a) > Len(b) THEN "M" ELSE "",
         overflowData |-> [k \in 1..Len(overflow) |-> BitXor(overflow[k], 255)],
         records |-> RUPXorRecords(a, b, 0)]

InitRUPApply ==
    /\ pc = "new"
    /\ source \in RUPRoms
    /\ modified \in RUPRoms
    /\ patch = None
    /\ patchFile = None
    /\ parsed = None
    /\ target = None

RUPBuild ==
    /\ pc = "new"
    /\ patch' = [files |-> <<RUPFileOf(source, modified)>>]
    /\ pc' = "built"
    /\ UNCHANGED <<source, modified, patchFile, parsed, target>>

\* patch.apply(source, validate)
RUPApplyForward ==
    /\ pc = "built"
    /\ \E validate \in BOOLEAN :
          LET r == RUP_apply(patch, source, validate)
          IN  /\ target' = r.result
              /\ source' = r.romFile
              /\ parsed' = [validate |-> validate, forward |-> TRUE,
                            md5 |-> hashMD5(source)]
    /\ pc' = "applied"
    /\ UNCHANGED <<modified, patch, patchFile>>

\* patch.apply(modified, validate)
RUPApplyReverse ==
    /\ pc = "built"
    /\ \E validate \in BOOLEAN :
          LET r == RUP_apply(patch, modified, validate)
          IN  /\ target' = r.result
              /\ modified' = r.romFile
              /\ parsed' = [validate |-> validate, forward |-> FALSE,
                            md5 |-> hashMD5(modified)]
    /\ pc' = "applied"
    /\ UNCHANGED <<source, patch, patchFile>>

NextRUPApply == RUPBuild \/ RUPApplyForward \/ RUPApplyReverse

SpecRUPApply == InitRUPApply /\ [][NextRUPApply]_vars

\* C27: RUP apply in the forward direction (the input's hash is source_md5)
\* returns a buffer of exactly target_size bytes, in Append mode with the
\* overflow bytes, each XOR 0xff, from source_size on, in Minify mode trimmed
\* to target_size; in the reverse direction (the input's hash is target_md5)
\* the output has exactly source_size bytes.
C27_RUPOutputSize ==
    pc = "applied" =>
        LET file == patch.files[1]
        IN  /\ (parsed.md5 = file.sourceMD5 /\ parsed.md5 # file.targetMD5) =>
                  /\ IsFile(target)
                  /\ target.fileSize = file.targetFileSize
                  /\ file.overflowMode = "A" =>
                        Slice(getBytes(target), file.sourceFileSize, file.targetFileSize)
                            = RUP_unmask(file.overflowData)
            /\ parsed.md5 = file.targetMD5 =>
                  /\ IsFile(target)
                  /\ target.fileSize = file.sourceFileSize

(***************************************************************************)
(* SpecBinRead: one read of each width on a buffer in any state its        *)
(* operations lead to: bytes beyond fileSize after a truncate, a cursor    *)
(* anywhere up to the end of the backing store (restore does not clamp     *)
(* it), either endianness.                                                 *)
(***************************************************************************)
MaxReadBufLen == 4
ReadBuffers ==
    {[data |-> b, fileSize |-> n, offset |-> o, littleEndian |-> le, stack |-> <<>>] :
        b \in SeqsUpTo({1, 2}, MaxReadBufLen),
        n \in 0..MaxReadBufLen, o \in 0..MaxReadBufLen, le \in BOOLEAN}

InitBinRead ==
    /\ pc = "open"
    /\ source \in {f \in ReadBuffers : f.fileSize <= Len(f.data) /\ f.offset <= Len(f.data)}
    /\ modified = None
    /\ patch = None
    /\ patchFile = None
    /\ parsed = None
    /\ target = None

\* a read of width bytes that returns v and leaves the file g
ReadStep(width, v, g) ==
    /\ pc = "open"
    /\ pc' = "read"
    /\ parsed' = [width |-> width, value |-> v, before |-> source]
    /\ source' = g
    /\ UNCHANGED <<modified, patch, patchFile, target>>

ReadU8 == ReadStep(1, U32(readU8Val(source)), readU8File(source))
ReadU16 == ReadStep(2, U32(readU16Val(source)), readU16File(source))
ReadU24 == ReadStep(3, U32(readU24Val(source)), readU24File(source))
ReadU32 == ReadStep(4, readU32Val(source), readU32File(source))

NextBinRead == ReadU8 \/ ReadU16 \/ ReadU24 \/ ReadU32

SpecBinRead == InitBinRead /\ [][NextBinRead]_vars

\* the byte at position k of a buffer, 0 at and beyond fileSize
PaddedByte(f, k) == IF k < f.fileSize THEN f.data[k + 1] ELSE 0

RECURSIVE PaddedBytes(_, _, _)
PaddedBytes(f, k, width) ==
    IF width = 0 THEN <<>>
    ELSE <<PaddedByte(f, k)>> \o PaddedBytes(f, k + 1, width - 1)

RECURSIVE Reverse(_)
Reverse(s) == IF s = <<>> THEN <<>> ELSE Reverse(Tail(s)) \o <<Head(s)>>

\* the value of at most four bytes, most significant first, as <<high 16
\* bits, low 16 bits>>
BigEndianValue(bytes) ==
    LET b == Zeros(4 - Len(bytes)) \o bytes
    IN  <<b[1] * 256 + b[2], b[3] * 256 + b[4]>>

\* C28: a read of 1, 2, 3 or 4 bytes takes every byte position at or beyond
\* fileSize as 0, combines the bytes in the selected endianness, leaves
\* offset = min(old offset + width, fileSize), and changes neither the bytes
\* nor the size.
C28_ReadsAtEnd ==
    pc = "read" =>
        LET f == parsed.before
            bytes == PaddedBytes(f, f.offset, parsed.width)
        IN  /\ parsed.value = BigEndianValue(IF f.littleEndian THEN Reverse(bytes)
                                             ELSE bytes)
            /\ source.offset = Min(f.offset + parsed.width, f.fileSize)
            /\ source.data = f.data
            /\ source.fileSize = f.fileSize

\* C29: truncate only shrinks: after truncate(n) the logical size is
\* min(old fileSize, n), never more than before, also when expand has grown
\* the backing store beyond fileSize, and offset <= fileSize.
C29_TruncateOnlyShrinks ==
    [][\A n \in BinSizes :
          (source' # source /\ source' = truncate(source, n)) =>
              /\ source'.fileSize = Min(source.fileSize, n)
              /\ source'.fileSize <= source.fileSize
              /\ source'.offset <= source'.fileSize]_vars

(***************************************************************************)
(* SpecFrame: every codec's apply, and RomPatcher.applyPatch, on a source  *)
(* buffer that carries a mark, store, of the object it is.  Operations in  *)
(* place keep the mark; a file made by new BinFile(...) or by clone(), on  *)
(* an array of its own, has none.                                          *)
(***************************************************************************)
MaxFrameRomLen == 2
FrameRomBytes == SeqsUpTo({1, 2}, MaxFrameRomLen)

\* the caller's source buffer
SourceBuffer(bytes) ==
    [data |-> bytes, fileSize |-> Len(bytes), offset |-> 0,
     littleEndian |-> FALSE, stack |-> <<>>, store |-> "source"]

\* the caller's source buffer, with a file name
NamedSourceBuffer(bytes, fileName) ==
    [data |-> bytes, fileSize |-> Len(bytes), offset |-> 0,
     littleEndian |-> FALSE, stack |-> <<>>, fileName |-> fileName,
     store |-> "source"]

\* a second buffer with the source's bytes, from which a patch is built
FrameOriginal == BinFileOfBytes(getBytes(source))

InitFrame ==
    /\ pc = "new"
    /\ source \in {SourceBuffer(b) : b \in FrameRomBytes}
                  \cup {NamedSourceBuffer(getBytes(f), f.fileName) : f \in ApplyRoms}
    /\ modified \in {BinFileOfBytes(b) : b \in FrameRomBytes}
    /\ patch = None
    /\ patchFile = None
    /\ parsed = None
    /\ target = None

\* an apply of a codec that returned or threw result and left the source as
\* romFile
FrameStep(codec, result, romFile) ==
    /\ pc' = "applied"
    /\ parsed' = [codec |-> codec, before |-> source]
    /\ target' = result
    /\ source' = romFile
    /\ UNCHANGED <<modified, patch, patchFile>>

FrameCodec == pc = "new" /\ "fileName" \notin DOMAIN source

FrameApplyIPS ==
    /\ FrameCodec
    /\ \E o \in {0, 3}, t \in {JSFalse, 1} :
          FrameStep("IPS",
                    IPS_apply([addSimpleRecord(IPSPatch, o, <<9>>) EXCEPT !.truncate = t],
                              source),
                    source)

FrameApplyUPS ==
    /\ FrameCodec
    /\ LET r == UPS_apply(UPS_buildFromRoms(FrameOriginal, modified).patch, source)
       IN  FrameStep("UPS", r.result, r.romFile)

FrameApplyBPS ==
    /\ FrameCodec
    /\ \E validate \in BOOLEAN :
          FrameStep("BPS", BPS_apply(BPS_create(FrameOriginal, modified), source, validate),
                    source)

FrameApplyAPSGBA ==
    /\ FrameCodec
    /\ LET r == APSGBA_apply(APSGBA_buildFromRoms(FrameOriginal, modified).patch, source)
       IN  FrameStep("APS-GBA", r.result, r.romFile)

FrameApplyPPF ==
    /\ FrameCodec
    /\ \E validate \in BOOLEAN :
          LET r == PPF_apply(PPF_create(FrameOriginal, modified).patch, source, validate)
          IN  FrameStep("PPF", r.result, r.romFile)

FrameApplyRUP ==
    /\ FrameCodec
    /\ \E validate \in BOOLEAN :
          LET r == RUP_apply([files |-> <<RUPFileOf(FrameOriginal, modified)>>],
                             source, validate)
          IN  FrameStep("RUP", r.result, r.romFile)

FrameApplyPMSR ==
    /\ FrameCodec
    /\ \E validate \in BOOLEAN :
          FrameStep("PMSR",
                    PMSR_apply(PMSR_buildFromRoms(FrameOriginal, modified).patch,
                               source, validate),
                    source)

FrameApplyVCDIFF ==
    /\ FrameCodec
    /\ \E w \in VCDWindows(source), validate \in BOOLEAN :
          FrameStep("VCDIFF",
                    VCDIFF_apply(VCDIFF_parse(BinFileOfBytes(
                                     VCDFileBytes(FALSE, <<w>>, source))),
                                 source, validate),
                    source)

\* RomPatcher.applyPatch(source, patch, options)
FrameApplyPatch ==
    /\ pc = "new"
    /\ "fileName" \in DOMAIN source
    /\ \E tp \in ApplyPatches, options \in ApplyOptions :
          LET r == RomPatcher_applyPatch(source, tp, options)
          IN  FrameStep("RomPatcher", r.result, r.romFile)

NextFrame ==
    \/ FrameApplyIPS
    \/ FrameApplyUPS
    \/ FrameApplyBPS
    \/ FrameApplyAPSGBA
    \/ FrameApplyPPF
    \/ FrameApplyRUP
    \/ FrameApplyPMSR
    \/ FrameApplyVCDIFF
    \/ FrameApplyPatch

SpecFrame == InitFrame /\ [][NextFrame]_vars

\* C30: apply of every codec, and the dispatcher's apply with any header
\* option, leaves the source buffer's size and bytes as they were (only its
\* cursor may move), and the target returned is a buffer of its own: not the
\* source object and on no array of the source.
C30_SourceNotModified ==
    pc = "applied" =>
        /\ source.fileSize = parsed.before.fileSize
        /\ source.data = parsed.before.data
        /\ [source EXCEPT !.offset = 0] = [parsed.before EXCEPT !.offset = 0]
        /\ IsFile(target) => "store" \notin DOMAIN target

\* an apply has returned a file that differs from the source and has moved
\* the source's cursor
C30_Witness ==
    /\ pc = "applied"
    /\ IsFile(target)
    /\ getBytes(target) # getBytes(source)
    /\ source.offset # parsed.before.offset

====
